---- MODULE Spec2Model ----
(***************************************************************************)
(* A model of the V2 inference engine (v2-project/v2).                     *)
(*                                                                         *)
(*   Spec         the inference driver V2.infer (src/index.js) driving a   *)
(*                search strategy of the mutation module                   *)
(*                (src/unnamed/part_005): the level-order traversal, or    *)
(*                the spreading wrapper spreadFirstN over per-root IDDFS   *)
(*                or feedbackDirectedDFS generators.                       *)
(*   SpecResolve  V2.lookupDirectDependencies and                          *)
(*                V2.lookupTransitiveDependencies (src/index.js) with the  *)
(*                concurrent per-resource lookups interleaved.             *)
(*                                                                         *)
(* Indices (dependency index, mutatorIndex) are 0-based as in the source;  *)
(* TLA+ sequences are 1-based, so dependencies[index] is deps[index + 1].  *)
(***************************************************************************)
EXTENDS Integers, Sequences, FiniteSets, TLC

VARIABLES
    opts,          \* options of infer: [search, noValidate], and matrix, the
                   \* upgrade data the knowledge graph holds for this run
    pc,            \* position of infer
    environments,  \* the starting environments (roots), Seq of environment
    resolved,      \* roots whose Bluebird.map callback has finished
    now,           \* Date.now() / 1000
    im,            \* inferenceMetadata
    vals,          \* validation objects, by identity (index = order of creation)
    spread,        \* state of the generator returned by spreadFirstN
    gens,          \* per-root generator states (IDDFS / feedbackDirectedDFS)
    lo,            \* state of naiveLevelOrderTraversal
    control,       \* last result of mutantGenerator.next()
    sent,          \* argument of the pending mutantGenerator.next(...)
    current,       \* the environment under validation (control.value)
    outcome,       \* how infer ended
    hist,          \* history: yields, validations, generator resumptions
    rs,            \* state of dependency resolution (SpecResolve)
    ad             \* state of the package-system adapters (SpecAdapter)

vars == << opts, pc, environments, resolved, now, im, vals, spread, gens, lo,
           control, sent, current, outcome, hist, rs, ad >>

inferVars == << opts, pc, environments, resolved, now, im, vals, spread, gens,
                lo, control, sent, current, outcome, hist >>

-----------------------------------------------------------------------------
(* Bounds of the model *)

\* n of spreadFirstN (the source's default FIRST_N is 500): the total budget
\* of mutated environments, split over the roots.
BudgetN == 3

\* the number of levels of the level-order traversal (the source's default
\* MAX_LEVEL is 10)
Levels == 3

\* the most resources a snippet imports (resolution of one environment)
MaxResources == 2

\* the longest list of versions given to sortPackageVersions
MaxVersions == 2

\* the longest package name given to normalizePackageName
MaxNameLen == 3

-----------------------------------------------------------------------------
(* Program constants *)

SUCCESS == "Success"
TIMEOUT == "Timeout"
UNKNOWN_EXCEPTION == "UnknownException"
NOT_REPAIRABLE == "NotRepairable"
EXHAUSTED_MATRIX_VERSIONS == "ExhaustedVersionMatrixVersions"
EXHAUSTED_SINGLE_DEPENDENCY_VERSIONS == "ExhaustedSingleDependencyVersions"
EXHAUSTED_ALL_DEPENDENCY_VERSIONS == "ExhaustedAllDependencyVersions"
TYPE_VERSION_MATRIX_FROM == "version_matrix_from_version"

\* the wall-clock budget of infer, in seconds
BUDGET == 3600

\* the parser sandboxes, in the order they are run
PARSERS == << "python3-parse", "python2-parse" >>

-----------------------------------------------------------------------------
(* Helpers on sequences *)

Range(s) == { s[i] : i \in DOMAIN s }

Last(s) == s[Len(s)]

Front(s) == SubSeq(s, 1, Len(s) - 1)

ReplaceAt(s, i, x) == [ s EXCEPT ![i] = x ]

Max(a, b) == IF a >= b THEN a ELSE b

\* _.ceil(n / k) for positive integers
CeilDiv(n, k) == (n + k - 1) \div k

-----------------------------------------------------------------------------
(* Versions, dependencies and the package catalogue                         *)
(* A version is << major, minor >>; the packaging system and the knowledge *)
(* graph are external, so the catalogue below is one fixed small world.    *)

pip == "pip"

VLess(a, b) == a[1] < b[1] \/ (a[1] = b[1] /\ a[2] < b[2])

VLeq(a, b) == a = b \/ VLess(a, b)

\* the newest version of a non-empty set of versions
Newest(S) == CHOOSE v \in S : \A w \in S : VLeq(w, v)

\* versions the packaging system offers for a package
AvailableVersions(name) ==
    CASE name = "p" -> { <<1, 1>>, <<1, 0>>, <<0, 1>>, <<0, 0>> }
      [] name = "q" -> { <<0, 1>>, <<0, 0>> }
      [] OTHER      -> {}

Dep(name, version) == [ name |-> name, version |-> version, system |-> pip ]

\* the Dependency a resolved package starts from (its newest version)
NewestDep(name) == Dep(name, Newest(AvailableVersions(name)))

-----------------------------------------------------------------------------
(* Mutators: semver.versionMutators, the precedence list                    *)

\* absent bookkeeping (mutation.iddfs not set)
NoIddfs == [ index |-> -1, mutatorIndex |-> -1 ]

NoResult == [ ok |-> FALSE ]

MutationResult(type, dep, to) ==
    [ ok       |-> TRUE,
      mutant   |-> [ dep EXCEPT !.version = to ],
      mutation |-> [ type |-> type, package |-> dep.name,
                     from |-> dep.version, to |-> to, iddfs |-> NoIddfs ] ]

\* decrement_semver_major: the newest available version below major.0
DecrementMajor(dep) ==
    LET c == { v \in AvailableVersions(dep.name) : VLess(v, << dep.version[1], 0 >>) }
    IN  IF dep.version[1] = 0 \/ c = {} THEN NoResult
        ELSE MutationResult("decrement_semver_major", dep, Newest(c))

\* decrement_semver_minor: the newest available version of the same major
\* below major.minor
DecrementMinor(dep) ==
    LET c == { v \in AvailableVersions(dep.name) :
                 v[1] = dep.version[1] /\ VLess(v, dep.version) }
    IN  IF dep.version[2] = 0 \/ c = {} THEN NoResult
        ELSE MutationResult("decrement_semver_minor", dep, Newest(c))

versionMutators == << "decrement_semver_major", "decrement_semver_minor" >>

\* mutator.apply(dependency): null when the mutation cannot be applied
Apply(mutator, dep) ==
    IF mutator = "decrement_semver_major" THEN DecrementMajor(dep)
    ELSE DecrementMinor(dep)

\* an undo that leaves the mutated version in place
UndoNothing(dep, mutation) == dep

\* semver.lookup[mutation.type].undo(dependency, mutation)
Undo(dep, mutation) == [ dep EXCEPT !.version = mutation.from ]

-----------------------------------------------------------------------------
(* Environments *)

\* the environment template built by parseAndGenerateDefaultEnvironments.
\* rootDependencies is history: the dependency list as resolution left it,
\* which no search touches.
NewEnvironment(id, parser) ==
    [ id               |-> id,
      parser           |-> parser,
      dependencies     |-> << >>,
      mutations        |-> << >>,
      fixedValidations |-> << >>,
      mapping          |-> << >>,
      rootDependencies |-> << >> ]

-----------------------------------------------------------------------------
(* IDDFS: iterative-deepening DFS over one environment, mutated in place    *)

IDDFSInit(n) ==
    [ kind |-> "iddfs", pc |-> "start", n |-> n,
      currentDepth |-> 0, depth |-> 1, totalCount |-> 0, depthCount |-> 0,
      index |-> 0, mutatorIndex |-> 0, dependency |-> Dep("", <<0, 0>>),
      passEnds |-> << >> ]

\* passEnds is not state of the program: it keeps what the environment held
\* each time the search was back at the root level with nothing left to try
PassEnd(g, env) ==
    [ g EXCEPT !.passEnds = Append(@, [ dependencies |-> env.dependencies,
                                        mutations    |-> env.mutations ]) ]

\* a yield at every node, not only at the leaves of the pass
AtAnyDepth(g) == TRUE

\* a descent that starts again from the first dependency and mutator
RestartPairs(g) == [ g EXCEPT !.index = 0, !.mutatorIndex = 0 ]

\* a descent leaves index and mutatorIndex as they are: the next mutation
\* is tried with the same pair
KeepPair(g) == g

\* a yield after the first mutation, in every pass
AtDepthOne(g) == g.currentDepth = 1

\* currentDepth === depth: the environment is a leaf of this pass
AtLeaf(g) == g.currentDepth = g.depth


\* the lateral move: the next mutator, or the first mutator of the next
\* dependency
Lateral(g) ==
    IF g.mutatorIndex + 1 < Len(versionMutators)
    THEN [ g EXCEPT !.mutatorIndex = @ + 1 ]
    ELSE [ g EXCEPT !.mutatorIndex = 0, !.index = @ + 1 ]

Finished(g, env, ret) ==
    [ g |-> [ g EXCEPT !.pc = "done" ], env |-> env, done |-> TRUE, ret |-> ret ]

Yielded(g, env) ==
    [ g |-> g, env |-> env, done |-> FALSE, ret |-> << >> ]

\* the while loop of IDDFS, run to the next yield or to its end
RECURSIVE IDDFSLoop(_, _)
IDDFSLoop(g, env) ==
    IF ~(g.totalCount < g.n) THEN Finished(g, env, << >>)
    ELSE IF g.index >= Len(env.dependencies) THEN
        IF g.currentDepth > 0 THEN
            \* backtrack: pop the last mutation, undo it, move laterally
            LET mutation == Last(env.mutations)
                i  == mutation.iddfs.index
                g1 == [ g EXCEPT !.currentDepth = @ - 1,
                                 !.mutatorIndex = mutation.iddfs.mutatorIndex,
                                 !.index = i ]
                e1 == [ env EXCEPT !.mutations = Front(@),
                                   !.dependencies[i + 1] = Undo(@, mutation) ]
            IN  IDDFSLoop(Lateral(g1), e1)
        ELSE IF g.depthCount = 0 THEN Finished(PassEnd(g, env), env, << >>)
        ELSE IDDFSLoop([ PassEnd(g, env) EXCEPT
                                  !.currentDepth = 0, !.depth = @ + 1,
                                  !.depthCount = 0, !.mutatorIndex = 0,
                                  !.index = 0 ], env)
    ELSE
        LET dependency == env.dependencies[g.index + 1]
            res == Apply(versionMutators[g.mutatorIndex + 1], dependency)
        IN  IF res.ok THEN
                LET mutation == [ res.mutation EXCEPT !.iddfs =
                                    [ index |-> g.index, mutatorIndex |-> g.mutatorIndex ] ]
                    e1 == [ env EXCEPT !.dependencies[g.index + 1] = res.mutant,
                                       !.mutations = Append(@, mutation) ]
                    g1 == [ g EXCEPT !.currentDepth = @ + 1 ]
                IN  IF AtLeaf(g1)
                    THEN Yielded([ g1 EXCEPT !.totalCount = @ + 1,
                                             !.depthCount = @ + 1,
                                             !.pc = "leaf",
                                             !.dependency = dependency ], e1)
                    ELSE IDDFSLoop(KeepPair(g1), e1)
            ELSE IDDFSLoop(Lateral(g), env)

\* Restore without mutations.pop(): the dependency goes back and the stack
\* keeps the entry (C1 must notice)
RestoreKeepingStack(env, index, dependency) ==
    [ env EXCEPT !.dependencies[index + 1] = dependency ]

\* after the yield of a leaf the mutation is taken back: mutations.pop();
\* dependencies[index] = dependency
Restore(env, index, dependency) ==
    [ env EXCEPT !.mutations = Front(@),
                 !.dependencies[index + 1] = dependency ]

\* generator.next() of IDDFS: the validation passed in is ignored
IDDFSNext(g, env) ==
    CASE g.pc = "start" -> Yielded([ g EXCEPT !.pc = "root" ], env)
      [] g.pc = "root"  -> IDDFSLoop(g, env)
      [] g.pc = "leaf"  ->
            \* after the yield of a leaf: take the mutation back, move laterally
            IDDFSLoop(Lateral([ g EXCEPT !.currentDepth = @ - 1 ]),
                      Restore(env, g.index, g.dependency))
      [] OTHER -> Finished(g, env, << >>)

-----------------------------------------------------------------------------
(* Validation records                                                       *)
(* exception_stack is a list of frames; of a frame the model keeps whether *)
(* its file lies under the site-packages prefix, the head component of its *)
(* path below that prefix, and its line number.  resource is what           *)
(* extractImportModule reads from exception_line ("" when nothing).         *)
(* validations is the counter the feedback-directed search attaches to a   *)
(* checkpoint (-1: the property is absent).                                 *)

Frame(site, pkg, line) == [ site |-> site, pkg |-> pkg, line |-> line ]

Validation(status, hasExecution, execStatus, name, resource, stack) ==
    [ status_code    |-> status,
      hasExecution   |-> hasExecution,
      exec_status    |-> execStatus,
      exception_name |-> name,
      resource       |-> resource,
      stack          |-> stack,
      validations    |-> -1 ]

VSuccess == Validation(SUCCESS, TRUE, SUCCESS, "", "", << >>)

VTimeout == Validation(TIMEOUT, FALSE, "", "", "", << >>)

VUnknown == Validation("Failed", TRUE, UNKNOWN_EXCEPTION, "", "", << >>)

\* an ImportError raised inside package p, reached from line 1 of the snippet
VImportInP ==
    Validation("Failed", TRUE, "Failed", "ImportError", "p",
               << Frame(FALSE, "", 1), Frame(TRUE, "p", 7) >>)

\* a TypeError at line 2 of the snippet itself
VTypeError ==
    Validation("Failed", TRUE, "Failed", "TypeError", "",
               << Frame(FALSE, "", 2) >>)

\* a NameError at line 3 of the snippet itself
VNameError ==
    Validation("Failed", TRUE, "Failed", "NameError", "",
               << Frame(FALSE, "", 3) >>)

\* a ModuleNotFoundError for resource q at line 2 of the snippet itself
VImportQ ==
    Validation("Failed", TRUE, "Failed", "ModuleNotFoundError", "q",
               << Frame(FALSE, "", 2) >>)

\* what the validation sandbox may answer
ValidationOutcomes(search) ==
    IF search = "feedback-directed"
    THEN { VSuccess, VTimeout, VUnknown, VImportInP, VImportQ, VTypeError,
           VNameError }
    ELSE { VSuccess, VImportInP, VTypeError }

-----------------------------------------------------------------------------
(* naiveLevelOrderTraversal                                                 *)

LevelOrderInit(envs) ==
    [ pc |-> "start", level |-> 0, environments |-> envs, pos |-> 0,
      nextLevel |-> << >> ]

\* all (mutator, dependency index) pairs, mutators outermost
MutatorPairs(env) ==
    [ k \in 1 .. (Len(versionMutators) * Len(env.dependencies)) |->
        [ mutator |-> versionMutators[((k - 1) \div Len(env.dependencies)) + 1],
          index   |-> (k - 1) % Len(env.dependencies) ] ]

\* a child that does not record its mutation
MutantEnvUnrecorded(env, index, res) ==
    [ env EXCEPT !.dependencies[index + 1] = res.mutant ]

\* the child of an environment for one successful mutation (a deep clone)
MutantEnv(env, index, res) ==
    [ env EXCEPT !.mutations = Append(@, res.mutation),
                 !.dependencies[index + 1] = res.mutant ]

\* the expansion of one frontier entry.  mutationResult.mutant is read
\* before the result is tested, so a null result throws a TypeError.
Expand(env) ==
    LET pairs == MutatorPairs(env)
        res(k) == Apply(pairs[k].mutator, env.dependencies[pairs[k].index + 1])
    IN  IF \E k \in DOMAIN pairs : ~res(k).ok
        THEN [ threw |-> TRUE, children |-> << >> ]
        ELSE [ threw |-> FALSE,
               children |-> [ k \in DOMAIN pairs |->
                                MutantEnv(env, pairs[k].index, res(k)) ] ]

\* from the head of the for loop at position pos + 1 to the next yield
RECURSIVE LevelOrderLoop(_)
LevelOrderLoop(l) ==
    IF l.pos < Len(l.environments)
    THEN [ lo |-> [ l EXCEPT !.pos = @ + 1, !.pc = "yielded" ],
           done |-> FALSE, threw |-> FALSE ]
    ELSE LET l1 == [ l EXCEPT !.environments = l.nextLevel, !.nextLevel = << >>,
                              !.level = @ + 1, !.pos = 0 ]
         IN  IF Len(l1.environments) > 0 /\ l1.level < Levels
             THEN LevelOrderLoop(l1)
             ELSE [ lo |-> [ l1 EXCEPT !.pc = "done" ], done |-> TRUE,
                    threw |-> FALSE ]

\* generator.next() of the level-order traversal
LevelOrderNext(l) ==
    CASE l.pc = "start" ->
            IF Len(l.environments) > 0 /\ l.level < Levels
            THEN LevelOrderLoop(l)
            ELSE [ lo |-> [ l EXCEPT !.pc = "done" ], done |-> TRUE, threw |-> FALSE ]
      [] l.pc = "yielded" ->
            IF l.level < Levels - 1
            THEN LET x == Expand(l.environments[l.pos])
                 IN  IF x.threw
                     THEN [ lo |-> [ l EXCEPT !.pc = "done" ], done |-> TRUE,
                            threw |-> TRUE ]
                     ELSE LevelOrderLoop([ l EXCEPT !.nextLevel = @ \o x.children ])
            ELSE LevelOrderLoop(l)
      [] OTHER -> [ lo |-> l, done |-> TRUE, threw |-> FALSE ]

-----------------------------------------------------------------------------
(* PythonStrategy: the language strategy's predicates                       *)

IMPORT_ERRORS == { "ImportError", "ModuleNotFoundError" }

\* _.findIndex: the 0-based index of the first element satisfying P, or -1
FindIndex(seq, P(_)) ==
    IF \E i \in DOMAIN seq : P(seq[i])
    THEN (CHOOSE i \in DOMAIN seq : P(seq[i]) /\ \A j \in 1 .. (i - 1) : ~P(seq[j])) - 1
    ELSE -1

IsSiteFrame(frame) == frame.site

\* _.get(v, 'execution.exception_stack[0][1]') is defined
HasLine(v) == v.hasExecution /\ Len(v.stack) > 0

\* "v1", "v2", "null" (no exception is first), or "throw" when a line number
\* is missing
firstExecutionException(v1, v2) ==
    IF ~HasLine(v1) \/ ~HasLine(v2) THEN "throw"
    ELSE IF v1.stack[1].line < v2.stack[1].line THEN "v1"
    ELSE IF v2.stack[1].line < v1.stack[1].line THEN "v2"
    ELSE "null"

\* the classification that looks for a third-party frame first
RepairableBySiteFrameFirst(env, v) ==
    IF \E i \in DOMAIN v.stack : IsSiteFrame(v.stack[i]) THEN TRUE
    ELSE IF v.exception_name \in { "FileNotFoundError" } THEN FALSE
    ELSE IF v.exception_name \in IMPORT_ERRORS
         THEN \E i \in DOMAIN env.mapping : env.mapping[i].resource = v.resource
         ELSE v.exception_name \in { "TypeError", "AttributeError" }

isRepairableVersionError(env, v) ==
    IF v.exception_name \in { "FileNotFoundError" } THEN FALSE
    ELSE IF \E i \in DOMAIN v.stack : IsSiteFrame(v.stack[i]) THEN TRUE
    ELSE IF v.exception_name \in IMPORT_ERRORS
         THEN \E i \in DOMAIN env.mapping : env.mapping[i].resource = v.resource
         ELSE v.exception_name \in { "TypeError", "AttributeError" }

\* the first frame, from the last one backwards, that matches a dependency
RECURSIVE LastManagedFrame(_, _)
LastManagedFrame(env, frames) ==
    IF frames = << >> THEN << >>
    ELSE LET frame == Last(frames)
             Match(d) == d.system = pip /\ d.name = frame.pkg
             index == FindIndex(env.dependencies, Match)
         IN  IF index >= 0 THEN << index >>
             ELSE LastManagedFrame(env, Front(frames))

\* << index >>, or << >> for null
dependencyProducingException(env, v) ==
    LET allSitePackages == SelectSeq(v.stack, IsSiteFrame)
    IN  IF allSitePackages = << >>
        THEN IF v.exception_name \in IMPORT_ERRORS
             THEN LET ForResource(m) == m.resource = v.resource
                      packages == SelectSeq(env.mapping, ForResource)
                      Mapped(d) == d.name = packages[1].package /\ d.system = pip
                  IN  IF Len(packages) = 1
                      THEN << FindIndex(env.dependencies, Mapped) >>
                      ELSE << >>
             ELSE << >>
        ELSE LastManagedFrame(env, allSitePackages)

-----------------------------------------------------------------------------
(* versionMatrixMutations: the mutation plan from the upgrade matrix        *)

\* HAS_UPGRADES: the knowledge graph holds upgrade data for the package
HasUpgrades(name) == name = "p"

\* the upgrade data the graph may hold for package p: the upgrades to 1.1
\* from 1.0 and from 0.1 and the upgrade to 1.0 from 0.1 are all breaking;
\* what differs is which upgrade to 1.1 has the larger percent_broken; or
\* the graph holds upgrade data for p but none of its upgrades is breaking
UpgradeWorlds == { "nearest-first", "farthest-first", "none-breaking" }

\* BREAKING_UPGRADES: records (v1, [v2 ...]), each list by decreasing
\* percent_broken
BreakingUpgrades(name) ==
    IF name # "p" \/ opts.matrix = "none-breaking" THEN << >>
    ELSE IF opts.matrix = "nearest-first"
    THEN << [ v1 |-> <<1, 1>>, upgrade |-> << <<1, 0>>, <<0, 1>> >> ],
            [ v1 |-> <<1, 0>>, upgrade |-> << <<0, 1>> >> ] >>
    ELSE << [ v1 |-> <<1, 1>>, upgrade |-> << <<0, 1>>, <<1, 0>> >> ],
            [ v1 |-> <<1, 0>>, upgrade |-> << <<0, 1>> >> ] >>

\* sortPackageVersions(versions, false, cutoff): descending, only the
\* versions at or below the cutoff
RECURSIVE SortDescending(_)
SortDescending(S) ==
    IF S = {} THEN << >>
    ELSE LET v == Newest(S) IN << v >> \o SortDescending(S \ { v })

sortPackageVersionsDescending(versions, cutoff) ==
    SortDescending({ v \in versions : VLeq(v, cutoff) })

\* lookup[key]: the list of the last record with that v1
LookupUpgrades(records, key) ==
    LET idx == { i \in DOMAIN records : records[i].v1 = key }
    IN  records[CHOOSE i \in idx : \A j \in idx : j <= i].upgrade

RECURSIVE MatrixTargets(_, _)
MatrixTargets(records, sortedVersions) ==
    IF sortedVersions = << >> THEN << >>
    ELSE LookupUpgrades(records, Head(sortedVersions))
            \o MatrixTargets(records, Tail(sortedVersions))

\* one entry of the plan: the mutation away from mutant.version
MatrixMutation(mutant, package, to) ==
    [ mutant   |-> [ mutant EXCEPT !.version = to ],
      mutation |-> [ type    |-> TYPE_VERSION_MATRIX_FROM,
                     package |-> package,
                     from    |-> mutant.version,
                     to      |-> to,
                     iddfs   |-> NoIddfs ] ]

\* every mutation made from the dependency itself, not from the last mutant
RECURSIVE PushUnchained(_, _, _)
PushUnchained(mutant, package, targets) ==
    IF targets = << >> THEN << >>
    ELSE << MatrixMutation(mutant, package, Head(targets)) >>
            \o PushUnchained(mutant, package, Tail(targets))

\* the two nested loops: mutant is replaced by its mutated clone at each step
RECURSIVE PushMutations(_, _, _)
PushMutations(mutant, package, targets) ==
    IF targets = << >> THEN << >>
    ELSE << MatrixMutation(mutant, package, Head(targets)) >>
            \o PushMutations(MatrixMutation(mutant, package, Head(targets)).mutant,
                             package, Tail(targets))

\* the plan: a chain of mutants, each made from the previous one
MatrixPlan(dependency, targets) ==
    PushMutations(dependency, dependency.name, targets)

\* [exists |-> FALSE]: null, the dependency has no upgrade matrix
versionMatrixMutations(dependency) ==
    IF HasUpgrades(dependency.name)
    THEN LET records == BreakingUpgrades(dependency.name)
             keys == { records[i].v1 : i \in DOMAIN records }
             sortedVersions == sortPackageVersionsDescending(keys, dependency.version)
         IN  [ exists |-> TRUE,
               plan   |-> IF records = << >> THEN << >>
                          ELSE MatrixPlan(dependency,
                                          MatrixTargets(records, sortedVersions)) ]
    ELSE [ exists |-> FALSE, plan |-> << >> ]

dependencyHash(dependency) == << dependency.name, dependency.system >>

-----------------------------------------------------------------------------
(* dependencyIDDFS: IDDFS over the versions of one dependency               *)

NoDep == Dep("", <<0, 0>>)

NoSub == [ kind |-> "none", pc |-> "none" ]

DependencyIDDFSInit(index) ==
    [ kind |-> "dep", pc |-> "start", index |-> index,
      currentDepth |-> 0, depth |-> 1, count |-> 0, mutatorIndex |-> 0,
      old |-> NoDep ]

RECURSIVE DependencyIDDFSLoop(_, _)
DependencyIDDFSLoop(d, env) ==
    IF d.mutatorIndex >= Len(versionMutators) THEN
        IF d.currentDepth > 0 THEN
            LET mutation == Last(env.mutations)
                d1 == [ d EXCEPT !.currentDepth = @ - 1,
                                 !.mutatorIndex = mutation.iddfs.mutatorIndex + 1 ]
                e1 == [ env EXCEPT !.mutations = Front(@),
                                   !.dependencies[d.index + 1] = Undo(@, mutation) ]
            IN  DependencyIDDFSLoop(d1, e1)
        ELSE IF d.count = 0 THEN Finished(d, env, << >>)
        ELSE DependencyIDDFSLoop([ d EXCEPT !.currentDepth = 0, !.depth = @ + 1,
                                            !.count = 0, !.mutatorIndex = 0 ], env)
    ELSE
        LET old == env.dependencies[d.index + 1]
            res == Apply(versionMutators[d.mutatorIndex + 1], old)
        IN  IF res.ok THEN
                LET mutation == [ res.mutation EXCEPT !.iddfs =
                                    [ index |-> -1, mutatorIndex |-> d.mutatorIndex ] ]
                    e1 == [ env EXCEPT !.dependencies[d.index + 1] = res.mutant,
                                       !.mutations = Append(@, mutation) ]
                    d1 == [ d EXCEPT !.currentDepth = @ + 1 ]
                IN  IF d1.currentDepth = d1.depth
                    THEN Yielded([ d1 EXCEPT !.count = @ + 1, !.pc = "leaf",
                                             !.old = old ], e1)
                    ELSE DependencyIDDFSLoop(d1, e1)
            ELSE DependencyIDDFSLoop([ d EXCEPT !.mutatorIndex = @ + 1 ], env)

DependencyIDDFSNext(d, env) ==
    CASE d.pc = "start" -> DependencyIDDFSLoop(d, env)
      [] d.pc = "leaf"  ->
            DependencyIDDFSLoop(
                [ d EXCEPT !.currentDepth = @ - 1, !.mutatorIndex = @ + 1 ],
                [ env EXCEPT !.mutations = Front(@),
                             !.dependencies[d.index + 1] = d.old ])
      [] OTHER -> Finished(d, env, << >>)

-----------------------------------------------------------------------------
(* versionMatrixIDDFS: IDDFS over all dependencies, preferring the matrix   *)

\* metadata: a function from dependency hashes to
\* [hasVersionMatrix, versionMatrixMutations]
NoMetadata == [ h \in {} |-> 0 ]

MatrixMetadata(dependency) ==
    LET m == versionMatrixMutations(dependency)
    IN  [ hasVersionMatrix |-> m.exists, versionMatrixMutations |-> m.plan ]

IsMatrixType(type) == type = TYPE_VERSION_MATRIX_FROM \/ type = "version_matrix_to_version"

VersionMatrixIDDFSInit ==
    [ kind |-> "vm", pc |-> "start", metadata |-> NoMetadata,
      depth |-> 0, count |-> 0, currentDepth |-> 0, index |-> 0,
      mutatorIndex |-> 0, dependency |-> NoDep,
      pending |-> [ mutant |-> NoDep, mutation |-> 0 ] ]

\* the head of the do-while body: a new depth pass
VMNewPass(m) ==
    [ m EXCEPT !.depth = @ + 1, !.count = 0, !.currentDepth = 0, !.index = 0,
               !.mutatorIndex = 0 ]

RECURSIVE VersionMatrixIDDFSLoop(_, _)
VersionMatrixIDDFSLoop(m, env) ==
    IF m.currentDepth = 0 /\ m.index >= Len(env.dependencies) THEN
        \* the end of a depth pass
        IF m.count > 0 THEN VersionMatrixIDDFSLoop(VMNewPass(m), env)
        ELSE Finished(m, env, << >>)
    ELSE IF m.index >= Len(env.dependencies) THEN
        \* backtrack
        LET mutation == Last(env.mutations)
            i  == mutation.iddfs.index
            m1 == [ m EXCEPT !.currentDepth = @ - 1, !.index = i,
                             !.mutatorIndex = mutation.iddfs.mutatorIndex ]
            e1 == [ env EXCEPT !.mutations = Front(@) ]
            dependency == e1.dependencies[i + 1]
            hash == dependencyHash(dependency)
        IN  IF IsMatrixType(mutation.type)
            THEN VersionMatrixIDDFSLoop(
                    [ m1 EXCEPT !.metadata[hash].versionMatrixMutations =
                                    << [ mutant |-> dependency, mutation |-> mutation ] >> \o @,
                                !.index = @ + 1 ],
                    [ e1 EXCEPT !.dependencies[i + 1].version = mutation.from ])
            ELSE VersionMatrixIDDFSLoop(
                    Lateral(m1),
                    [ e1 EXCEPT !.dependencies[i + 1] = Undo(@, mutation) ])
    ELSE
        LET dependency == env.dependencies[m.index + 1]
            hash == dependencyHash(dependency)
            m0 == IF hash \in DOMAIN m.metadata THEN m
                  ELSE [ m EXCEPT !.metadata = @ @@ (hash :> MatrixMetadata(dependency)) ]
            bk == [ index |-> m.index, mutatorIndex |-> m.mutatorIndex ]
        IN  IF m0.metadata[hash].hasVersionMatrix THEN
                LET queue == m0.metadata[hash].versionMatrixMutations
                IN  IF queue = << >>
                    THEN VersionMatrixIDDFSLoop([ m0 EXCEPT !.index = @ + 1 ], env)
                    ELSE
                        LET mutation == [ Head(queue).mutation EXCEPT !.iddfs = bk ]
                            mutant == Head(queue).mutant
                            m1 == [ m0 EXCEPT !.metadata[hash].versionMatrixMutations = Tail(queue),
                                              !.currentDepth = @ + 1 ]
                            e1 == [ env EXCEPT !.mutations = Append(@, mutation),
                                               !.dependencies[m.index + 1] = mutant ]
                        IN  IF m1.currentDepth = m1.depth
                            THEN Yielded([ m1 EXCEPT !.count = @ + 1, !.pc = "matrixLeaf",
                                                     !.dependency = dependency,
                                                     !.pending = [ mutant |-> mutant,
                                                                   mutation |-> mutation ] ], e1)
                            ELSE VersionMatrixIDDFSLoop(m1, e1)
            ELSE
                LET res == Apply(versionMutators[m.mutatorIndex + 1], dependency)
                IN  IF res.ok THEN
                        LET mutation == [ res.mutation EXCEPT !.iddfs = bk ]
                            e1 == [ env EXCEPT !.dependencies[m.index + 1] = res.mutant,
                                               !.mutations = Append(@, mutation) ]
                            m1 == [ m0 EXCEPT !.currentDepth = @ + 1 ]
                        IN  IF m1.currentDepth = m1.depth
                            THEN Yielded([ m1 EXCEPT !.count = @ + 1, !.pc = "leaf",
                                                     !.dependency = dependency ], e1)
                            ELSE VersionMatrixIDDFSLoop(m1, e1)
                    ELSE VersionMatrixIDDFSLoop(Lateral(m0), env)

VersionMatrixIDDFSNext(m, env) ==
    CASE m.pc = "start" -> VersionMatrixIDDFSLoop(VMNewPass(m), env)
      [] m.pc = "matrixLeaf" ->
            \* reset the dependency, put the mutation back, next dependency
            LET hash == dependencyHash(m.dependency)
            IN  VersionMatrixIDDFSLoop(
                    [ m EXCEPT !.currentDepth = @ - 1, !.index = @ + 1,
                               !.metadata[hash].versionMatrixMutations = << m.pending >> \o @ ],
                    [ env EXCEPT !.mutations = Front(@),
                                 !.dependencies[m.index + 1] = m.dependency ])
      [] m.pc = "leaf" ->
            VersionMatrixIDDFSLoop(
                Lateral([ m EXCEPT !.currentDepth = @ - 1 ]),
                [ env EXCEPT !.mutations = Front(@),
                             !.dependencies[m.index + 1] = m.dependency ])
      [] OTHER -> Finished(m, env, << >>)

-----------------------------------------------------------------------------
(* feedbackDirectedDFS                                                       *)
(* A validation is known by its identity, its index in the heap vs.         *)

NoIndex == << >>

\* atYield and kept are ghosts: what the search held when it last yielded,
\* before the optimistic push, and, when the validation it was resumed with
\* brought no progress, that together with what it held once the validation
\* was classified
FDDInit(n) ==
    [ kind |-> "fdd", pc |-> "start", n |-> n, count |-> 0,
      checkpoint |-> 0, index |-> NoIndex, feedbackMetadata |-> NoMetadata,
      iddfs |-> NoSub, atYield |-> << >>, kept |-> << >> ]

\* the local state of the search and the fixedValidations of its environment
Held(g, env) ==
    [ checkpoint       |-> g.checkpoint,
      index            |-> g.index,
      feedbackMetadata |-> g.feedbackMetadata,
      iddfs            |-> g.iddfs,
      fixedValidations |-> env.fixedValidations ]

\* returnValue: fixedValidations and mutations are references into the
\* environment and are read there
ReturnValue(env, g, code) ==
    << [ id |-> env.id, checkpoint |-> g.checkpoint, code |-> code ] >>

Result(g, env, vs, done, ret, threw) ==
    [ g |-> g, env |-> env, vals |-> vs, done |-> done, ret |-> ret,
      threw |-> threw ]

FDDReturn(g, env, vs, ret) ==
    Result([ g EXCEPT !.pc = "done" ], env, vs, TRUE, ret, FALSE)

FDDThrow(g, env, vs) ==
    Result([ g EXCEPT !.pc = "done" ], env, vs, TRUE, << >>, TRUE)

\* the early exits on a validation that carries no exception to work on:
\* the code to return, or "" to go on
TerminalCode(v) ==
    IF v.status_code = TIMEOUT THEN TIMEOUT
    ELSE IF ~v.hasExecution \/ v.exec_status = UNKNOWN_EXCEPTION THEN UNKNOWN_EXCEPTION
    ELSE ""

\* fixedValidations.push(checkpoint); count++; checkpoint.validations++;
\* yield environment
FDDYield(g, env, vs) ==
    Result([ g EXCEPT !.count = @ + 1, !.pc = "mutant",
                      !.atYield = << Held(g, env) >> ],
           [ env EXCEPT !.fixedValidations = Append(@, g.checkpoint) ],
           [ vs EXCEPT ![g.checkpoint].validations = @ + 1 ],
           FALSE, << >>, FALSE)

\* what follows iddfs.next() of the secondary generator: its end is the
\* end of the search with the given code, its value is yielded
FDDSecondary(g, r, vs, code) ==
    IF r.done
    THEN FDDReturn([ g EXCEPT !.iddfs = r.g ], r.env, vs,
                   ReturnValue(r.env, [ g EXCEPT !.iddfs = r.g ], code))
    ELSE FDDYield([ g EXCEPT !.iddfs = r.g ], r.env, vs)

\* the secondary generator, created on first use
Secondary(g, fresh) == IF g.iddfs.kind = "none" THEN fresh ELSE g.iddfs

\* feedbackMetadata[hash] is created on the first visit of a dependency
EnsureMetadata(g, dependency) ==
    IF dependencyHash(dependency) \in DOMAIN g.feedbackMetadata THEN g
    ELSE [ g EXCEPT !.feedbackMetadata =
             @ @@ (dependencyHash(dependency) :> MatrixMetadata(dependency)) ]

\* the blamed dependency has a version matrix: its plan is consumed
FDDMatrix(g, env, vs, index, hash) ==
    IF g.feedbackMetadata[hash].versionMatrixMutations = << >>
    THEN FDDReturn(g, env, vs, ReturnValue(env, g, EXHAUSTED_MATRIX_VERSIONS))
    ELSE FDDYield(
            [ g EXCEPT !.feedbackMetadata[hash].versionMatrixMutations = Tail(@) ],
            [ env EXCEPT !.dependencies[index + 1] =
                            Head(g.feedbackMetadata[hash].versionMatrixMutations).mutant,
                         !.mutations = Append(@,
                            Head(g.feedbackMetadata[hash].versionMatrixMutations).mutation) ],
            vs)

\* a dependency is blamed; g has its feedbackMetadata entry
FDDBlamed(g, env, vs, index, hash) ==
    IF g.feedbackMetadata[hash].hasVersionMatrix
    THEN FDDMatrix(g, env, vs, index, hash)
    ELSE FDDSecondary(g,
                      DependencyIDDFSNext(Secondary(g, DependencyIDDFSInit(index)), env),
                      vs, EXHAUSTED_SINGLE_DEPENDENCY_VERSIONS)

\* one pass through the body of the while loop, up to the yield
FDDLoop(g, env, vs) ==
    IF ~(g.count < g.n) THEN FDDReturn(g, env, vs, << >>)
    ELSE IF g.index # NoIndex THEN
        IF g.index[1] < 0 \/ g.index[1] >= Len(env.dependencies)
        THEN FDDThrow(g, env, vs)       \* dependencyHash(undefined)
        ELSE FDDBlamed(EnsureMetadata(g, env.dependencies[g.index[1] + 1]),
                       env, vs, g.index[1],
                       dependencyHash(env.dependencies[g.index[1] + 1]))
    ELSE FDDSecondary(g,
                      VersionMatrixIDDFSNext(Secondary(g, VersionMatrixIDDFSInit), env),
                      vs, EXHAUSTED_ALL_DEPENDENCY_VERSIONS)

\* a validation becomes the checkpoint: classify it, find the dependency to
\* blame, reset the per-dependency metadata and the secondary IDDFS;
\* vs[id].validations is 0 already
FDDNewCheckpoint(g, env, vs, id) ==
    IF ~isRepairableVersionError(env, vs[id])
    THEN FDDReturn([ g EXCEPT !.checkpoint = id ], env, vs,
                   ReturnValue(env, [ g EXCEPT !.checkpoint = id ], NOT_REPAIRABLE))
    ELSE FDDLoop([ g EXCEPT !.checkpoint = id,
                            !.index = dependencyProducingException(env, vs[id]),
                            !.feedbackMetadata = NoMetadata,
                            !.iddfs = NoSub ], env, vs)

\* the first resumption: the validation of the root is the checkpoint
FDDRoot(g, env, vs, validation) ==
    IF TerminalCode(vs[validation]) # ""
    THEN FDDReturn([ g EXCEPT !.checkpoint = validation ], env, vs,
                   ReturnValue(env, [ g EXCEPT !.checkpoint = validation ],
                               TerminalCode(vs[validation])))
    ELSE FDDNewCheckpoint(g, env, vs, validation)

\* the feedback without the early exits: a later validation is only compared
\* with the checkpoint
FeedbackWithoutExits(cp, v) ==
    IF cp = v THEN "same"
    ELSE IF firstExecutionException(cp, v) = "throw" THEN "throw"
    ELSE IF firstExecutionException(cp, v) = "v1" THEN "progress"
    ELSE "same"

\* a feedback that also takes a tie of the line numbers for progress
FeedbackOnTie(cp, v) ==
    IF cp = v THEN "same"
    ELSE IF TerminalCode(v) # "" THEN "return"
    ELSE IF firstExecutionException(cp, v) = "throw" THEN "throw"
    ELSE IF firstExecutionException(cp, v) \in { "v1", "null" } THEN "progress"
    ELSE "same"

\* what the validation of a mutant leads to: "same" (the loop goes on with
\* the same checkpoint), "return", "throw" or "progress" (a new checkpoint)
Feedback(cp, v) ==
    IF cp = v THEN "same"
    ELSE IF TerminalCode(v) # "" THEN "return"
    ELSE IF firstExecutionException(cp, v) = "throw" THEN "throw"
    ELSE IF firstExecutionException(cp, v) = "v1" THEN "progress"
    ELSE "same"

\* progress that does not keep the old checkpoint
SupersedeNothing(env, checkpoint) == env

\* fixedValidations.push(checkpoint) on progress: the old checkpoint is fixed
Supersede(env, checkpoint) ==
    [ env EXCEPT !.fixedValidations = Append(@, checkpoint) ]

\* no progress that forgets the secondary generator and the per-dependency
\* metadata
ForgetProgress(g) == [ g EXCEPT !.feedbackMetadata = NoMetadata, !.iddfs = NoSub ]

\* no progress: the branches that only log; nothing is assigned
KeepCheckpoint(g) == g

\* the ghost of a resumption without progress
Kept(g, env) ==
    [ g EXCEPT !.kept = << [ before |-> g.atYield[1], after |-> Held(g, env) ] >> ]

\* a later resumption; env has the checkpoint popped from fixedValidations
FDDMutant(g, env, vs, validation, feedback) ==
    CASE feedback = "return" ->
            FDDReturn(g, env, vs, ReturnValue(env, g, TerminalCode(vs[validation])))
      [] feedback = "throw" -> FDDThrow(g, env, vs)
      [] OTHER ->
            \* "progress" goes through FDDNewCheckpoint, "same" re-enters the loop
            IF feedback = "progress"
            THEN FDDNewCheckpoint(
                    [ g EXCEPT !.kept = << >> ],
                    Supersede(env, g.checkpoint),
                    [ vs EXCEPT ![validation].validations = 0 ], validation)
            ELSE FDDLoop(Kept(KeepCheckpoint(g), env), env, vs)

\* generator.next(validation) of feedbackDirectedDFS
FDDNext(g, env, vs, validation) ==
    CASE g.pc = "start" ->
            Result([ g EXCEPT !.pc = "root" ],
                   [ env EXCEPT !.fixedValidations = << >> ], vs, FALSE, << >>, FALSE)
      [] g.pc = "root" ->
            FDDRoot(g, env, [ vs EXCEPT ![validation].validations = 0 ], validation)
      [] g.pc = "mutant" ->
            FDDMutant(g, [ env EXCEPT !.fixedValidations = Front(@) ], vs,
                      validation, Feedback(vs[g.checkpoint], vs[validation]))
      [] OTHER -> Result(g, env, vs, TRUE, << >>, FALSE)

-----------------------------------------------------------------------------
(* spreadFirstN: the round-robin wrapper                                    *)

SpreadIdle ==
    [ created |-> FALSE, search |-> "", n |-> 0, generators |-> << >>,
      suspended |-> 0, metadata |-> << >> ]

\* the generators given the whole budget: n is not split over the roots
SpreadInitUnsplit(search, envs, n) ==
    [ created    |-> TRUE,
      search     |-> search,
      n          |-> n,
      generators |-> [ r \in DOMAIN envs |-> [ root |-> r, lastValidation |-> 0 ] ],
      suspended  |-> 0,
      metadata   |-> << >> ]

\* the generators, each paired with an undefined last validation (0)
SpreadInit(search, envs, n) ==
    [ created    |-> TRUE,
      search     |-> search,
      n          |-> CeilDiv(n, Len(envs)),
      generators |-> [ r \in DOMAIN envs |-> [ root |-> r, lastValidation |-> 0 ] ],
      suspended  |-> 0,
      metadata   |-> << >> ]

PerRootInit(search, n) ==
    IF search = "id-dfs" THEN IDDFSInit(n) ELSE FDDInit(n)

\* an IDDFS that stops when it is passed a successful validation
PerRootNextHeedingSuccess(g, env, vs, lastValidation) ==
    IF g.kind = "iddfs"
    THEN LET r == IF lastValidation \in DOMAIN vs /\ vs[lastValidation].status_code = SUCCESS
                  THEN Finished(g, env, << >>)
                  ELSE IDDFSNext(g, env)
         IN  Result(r.g, r.env, vs, r.done, r.ret, FALSE)
    ELSE FDDNext(g, env, vs, lastValidation)

\* generator.next(lastValidation) of a per-root generator
PerRootNext(g, env, vs, lastValidation) ==
    IF g.kind = "iddfs"
    THEN LET r == IDDFSNext(g, env)
         IN  Result(r.g, r.env, vs, r.done, r.ret, FALSE)
    ELSE FDDNext(g, env, vs, lastValidation)

\* generators.unshift(...) in place of generators.push(...): the generator
\* that yielded goes back to the head (C3 must notice)
RequeueAtHead(sp, validation) ==
    IF sp.suspended = 0 THEN sp.generators
    ELSE << [ root |-> sp.suspended, lastValidation |-> validation ] >> \o sp.generators

\* the generator that yielded is pushed with the validation made before the
\* one it is owed (C4 must notice)
RequeueWithStaleValidation(sp, validation) ==
    IF sp.suspended = 0 THEN sp.generators
    ELSE Append(sp.generators,
                [ root |-> sp.suspended,
                  lastValidation |-> IF validation > 1 THEN validation - 1
                                     ELSE validation ])

\* the queue once the wrapper is resumed with a validation: the generator
\* that yielded goes to the tail, paired with that validation
Requeue(sp, validation) ==
    IF sp.suspended = 0 THEN sp.generators
    ELSE Append(sp.generators, [ root |-> sp.suspended, lastValidation |-> validation ])

\* a finished generator's return value is kept when it is truthy
CollectMetadata(metadata, ret) == metadata \o ret

-----------------------------------------------------------------------------
(* V2.infer                                                                  *)

Searches == { "level-order", "id-dfs", "feedback-directed", "bogus" }

\* mutation.lookup[options.search || 'feedback-directed']
LookupSearch(search) ==
    IF search = "" THEN "feedback-directed"
    ELSE IF search \in { "level-order", "id-dfs", "feedback-directed" } THEN search
    ELSE "undefined"

\* what resolution may find for an environment: the dependencies and the
\* resource -> package mapping
ResolvedChoices ==
    { [ deps |-> << >>, mapping |-> << >> ],
      [ deps |-> << NewestDep("p") >>,
        mapping |-> << [ resource |-> "p", package |-> "p" ] >> ],
      [ deps |-> << NewestDep("p"), NewestDep("q") >>,
        mapping |-> << [ resource |-> "p", package |-> "p" ],
                       [ resource |-> "q", package |-> "q" ] >> ] }

\* how long a validation sandbox may run
Durations == { 0, BUDGET + 1 }

NoEnvironment == NewEnvironment(-1, "")

NoOutcome ==
    [ kind |-> "none", environment |-> NoEnvironment, time |-> 0,
      validations |-> 0, metadata |-> << >>, hasMetadata |-> FALSE ]

\* inferenceMetadata; start = -1: not created yet; validation = -1: unset,
\* 0: null; end = -1: unset
NoInferenceMetadata ==
    [ start |-> -1, failedValidations |-> << >>, numValidations |-> 0,
      validation |-> -1, end |-> -1 ]

NoControl == [ done |-> FALSE, kind |-> "none", at |-> 0, metadata |-> << >>,
               hasValue |-> FALSE ]

NoCurrent == [ kind |-> "none", at |-> 0 ]

\* parsing without the try/catch around each sandbox: the first failure
\* ends it with nothing (C8 must notice)
ParseUntilFailure(ok, k, id) ==
    IF \E j \in DOMAIN ok : ~ok[j] THEN << >>
    ELSE [ j \in DOMAIN ok |-> NewEnvironment(j - 1, PARSERS[j]) ]

\* the environments of the successful parsers, ids counted from 0
RECURSIVE ParseEnvironments(_, _, _)
ParseEnvironments(ok, k, id) ==
    IF k > Len(PARSERS) THEN << >>
    ELSE IF ok[k]
         THEN << NewEnvironment(id, PARSERS[k]) >> \o ParseEnvironments(ok, k + 1, id + 1)
         ELSE ParseEnvironments(ok, k + 1, id)

\* the environment object a yielded value refers to
Deref(ref, envs, l) ==
    IF ref.kind = "root" THEN envs[ref.at] ELSE l.environments[ref.at]

\* _.unionWith(failedValidations, [validation], _.isEqual): the values of
\* both lists, duplicates by value dropped
RECURSIVE UniqueByValue(_, _, _)
UniqueByValue(ids, vs, acc) ==
    IF ids = << >> THEN acc
    ELSE IF \E i \in DOMAIN acc : vs[acc[i]] = vs[Head(ids)]
         THEN UniqueByValue(Tail(ids), vs, acc)
         ELSE UniqueByValue(Tail(ids), vs, Append(acc, Head(ids)))

UnionWith(failedValidations, validation, vs) ==
    UniqueByValue(Append(failedValidations, validation), vs, << >>)

\* a test for "not timed out" in place of the test for Success (C2 must
\* notice)
IsNotTimeout(v) == v.status_code # TIMEOUT

IsSuccess(v) == v.status_code = SUCCESS

\* the noValidate option not honoured (C9 must notice)
NoValidateIgnored(options) == FALSE

\* if (options.noValidate)
NoValidate(options) == options.noValidate

TimedOut(t, start) == t - start > BUDGET

-----------------------------------------------------------------------------
(* History (ghost): what the driver and the generators did, in order        *)

Event(ev, root, id, env) ==
    [ ev |-> ev, root |-> root, id |-> id, env |-> env, ok |-> << >> ]

ParseEvent(ok) ==
    [ ev |-> "parse", root |-> 0, id |-> 0, env |-> NoEnvironment, ok |-> ok ]

-----------------------------------------------------------------------------
(* mutantGenerator.next(validation)                                         *)

\* generators.pop() in place of generators.shift(): the pair is taken from
\* the tail (C5 must notice)
Pop(generators) == [ head |-> Last(generators), rest |-> Front(generators) ]

\* generators.shift(): the pair taken and the queue left
Shift(generators) == [ head |-> Head(generators), rest |-> Tail(generators) ]

\* the state once the generator at the head of the queue has been shifted
\* out and resumed with its last validation
Resumed(st, head, res) ==
    [ st EXCEPT !.spread.generators = Shift(@).rest,
                !.spread.suspended = 0,
                !.gens[head.root] = res.g,
                !.environments[head.root] = res.env,
                !.vals = res.vals,
                !.hist = Append(@, Event("advance", head.root,
                                         head.lastValidation, NoEnvironment)) ]

\* the while loop of spreadFirstN, run to the next yield or to its return;
\* st = [ spread, gens, environments, vals, hist ]
RECURSIVE SpreadLoop(_)
\* one iteration: res is what the resumed generator answered
SpreadIteration(st, r, res) ==
    IF res.threw THEN [ st |-> st, done |-> TRUE, threw |-> TRUE ]
    ELSE IF ~res.done
    THEN [ st |-> [ st EXCEPT !.spread.suspended = r,
                              !.hist = Append(@, Event("yield", r, 0, res.env)) ],
           done |-> FALSE, threw |-> FALSE ]
    ELSE SpreadLoop([ st EXCEPT
                        !.spread.metadata = CollectMetadata(@, res.ret),
                        !.hist = Append(@, Event("finish", r, Len(res.ret),
                                                 NoEnvironment)) ])

SpreadResume(st, head, res) ==
    SpreadIteration(Resumed(st, head, res), head.root, res)

SpreadLoop(st) ==
    IF st.spread.generators = << >>
    THEN [ st |-> st, done |-> TRUE, threw |-> FALSE ]
    ELSE SpreadResume(st, Shift(st.spread.generators).head,
                      PerRootNext(st.gens[Shift(st.spread.generators).head.root],
                                  st.environments[Shift(st.spread.generators).head.root],
                                  st.vals,
                                  Shift(st.spread.generators).head.lastValidation))

\* next(validation) of the generator made by spreadFirstN
SpreadNext(sp, gs, envs, vs, h, validation) ==
    SpreadLoop([ spread       |-> [ sp EXCEPT !.generators = Requeue(sp, validation) ],
                 gens         |-> gs,
                 environments |-> envs,
                 vals         |-> vs,
                 hist         |-> h ])

-----------------------------------------------------------------------------
(* The actions of infer                                                      *)

Fail(kind) ==
    /\ outcome' = [ NoOutcome EXCEPT !.kind = kind ]
    /\ pc' = "done"

\* the search strategy is looked up first
Enter ==
    /\ pc = "enter"
    /\ IF LookupSearch(opts.search) = "undefined"
       THEN Fail("InferenceError")
       ELSE pc' = "parse" /\ UNCHANGED outcome
    /\ UNCHANGED << opts, environments, resolved, now, im, vals, spread, gens,
                    lo, control, sent, current, hist, rs, ad >>

\* parseAndGenerateDefaultEnvironments: each parser sandbox succeeds or fails
Parse ==
    /\ pc = "parse"
    /\ \E ok \in [ DOMAIN PARSERS -> BOOLEAN ] :
        /\ environments' = ParseEnvironments(ok, 1, 0)
        /\ hist' = Append(hist, ParseEvent(ok))
        /\ IF environments' = << >>
           THEN Fail("NoBaseEnvironments")
           ELSE pc' = "resolve" /\ UNCHANGED outcome
    /\ UNCHANGED << opts, resolved, now, im, vals, spread, gens, lo, control,
                    sent, current, rs, ad >>

\* the Bluebird.map callback of one environment: its dependencies and its
\* resource mapping are filled in
Resolve(r) ==
    /\ pc = "resolve"
    /\ r \in DOMAIN environments \ resolved
    /\ \E c \in ResolvedChoices :
        environments' = [ environments EXCEPT ![r].dependencies = c.deps,
                                              ![r].mapping = c.mapping,
                                              ![r].rootDependencies = c.deps ]
    /\ resolved' = resolved \cup { r }
    /\ UNCHANGED << opts, pc, now, im, vals, spread, gens, lo, control, sent,
                    current, outcome, hist, rs, ad >>

\* after resolution: the metadata is created and, unless noValidate, the
\* search generator
Begin ==
    /\ pc = "resolve"
    /\ resolved = DOMAIN environments
    /\ IF NoValidate(opts)
       THEN /\ im' = [ im EXCEPT !.start = now, !.end = now, !.validation = 0 ]
            /\ outcome' = [ NoOutcome EXCEPT !.kind = "success",
                                             !.environment = environments[1] ]
            /\ pc' = "done"
            /\ UNCHANGED << spread, gens, lo, sent >>
       ELSE /\ im' = [ im EXCEPT !.start = now ]
            /\ IF LookupSearch(opts.search) = "level-order"
               THEN /\ lo' = LevelOrderInit(environments)
                    /\ UNCHANGED << spread, gens >>
               ELSE /\ spread' = SpreadInit(LookupSearch(opts.search),
                                            environments, BudgetN)
                    /\ gens' = [ r \in DOMAIN environments |->
                                   PerRootInit(LookupSearch(opts.search),
                                               spread'.n) ]
                    /\ UNCHANGED lo
            /\ sent' = 0
            /\ pc' = "next"
            /\ UNCHANGED outcome
    /\ UNCHANGED << opts, environments, resolved, now, vals, control, current,
                    hist, rs, ad >>

\* control = await mutantGenerator.next(sent), for the spreading generator
SpreadControl(res) ==
    /\ spread' = res.st.spread
    /\ gens' = res.st.gens
    /\ environments' = res.st.environments
    /\ vals' = res.st.vals
    /\ hist' = res.st.hist
    /\ IF res.threw
       THEN /\ Fail("TypeError")
            /\ UNCHANGED << control, current >>
       ELSE /\ control' = [ done     |-> res.done,
                            kind     |-> "root",
                            at       |-> res.st.spread.suspended,
                            metadata |-> res.st.spread.metadata,
                            hasValue |-> TRUE ]
            /\ current' = IF res.done THEN current
                          ELSE [ kind |-> "root", at |-> res.st.spread.suspended ]
            /\ pc' = "loop"
            /\ UNCHANGED outcome

\* mutantGenerator.next(sent) of a generator made by spreadFirstN
AdvanceSpread ==
    /\ pc = "next"
    /\ spread.created
    /\ SpreadControl(SpreadNext(spread, gens, environments, vals, hist, sent))
    /\ UNCHANGED << opts, resolved, now, im, lo, sent, rs, ad >>

\* control = await mutantGenerator.next(sent), for the level-order traversal
LevelOrderControl(res, h) ==
    /\ lo' = res.lo
    /\ IF res.threw
       THEN /\ Fail("TypeError")
            /\ hist' = h
            /\ UNCHANGED << control, current >>
       ELSE /\ control' = [ done     |-> res.done,
                            kind     |-> "frontier",
                            at       |-> IF res.done THEN 0 ELSE res.lo.pos,
                            metadata |-> << >>,
                            hasValue |-> ~res.done ]
            /\ current' = IF res.done THEN current
                          ELSE [ kind |-> "frontier", at |-> res.lo.pos ]
            /\ hist' = IF res.done THEN h
                       ELSE Append(h, Event("yield",
                                            res.lo.environments[res.lo.pos].id + 1,
                                            0,
                                            res.lo.environments[res.lo.pos]))
            /\ pc' = "loop"
            /\ UNCHANGED outcome

\* mutantGenerator.next(sent) of naiveLevelOrderTraversal
AdvanceLevelOrder ==
    /\ pc = "next"
    /\ ~spread.created
    /\ LevelOrderControl(LevelOrderNext(lo),
                         Append(hist, Event("advance", 0, sent, NoEnvironment)))
    /\ UNCHANGED << opts, environments, resolved, now, im, vals, spread, gens,
                    sent, rs, ad >>

\* the head of the while loop: the generator is done, or the budget is
\* spent, or the yielded environment goes to validation
LoopTop ==
    /\ pc = "loop"
    /\ IF control.done
       THEN /\ outcome' = [ NoOutcome EXCEPT
                              !.kind = "NoWorkingEnvironment",
                              !.time = now - im.start,
                              !.validations = im.numValidations,
                              !.metadata = control.metadata,
                              !.hasMetadata = control.hasValue ]
            /\ pc' = "done"
       ELSE IF TimedOut(now, im.start)
       THEN /\ outcome' = [ NoOutcome EXCEPT
                              !.kind = "InferenceTimeout",
                              !.time = now - im.start,
                              !.validations = im.numValidations ]
            /\ pc' = "done"
       ELSE /\ pc' = "validating"
            /\ UNCHANGED outcome
    /\ UNCHANGED << opts, environments, resolved, now, im, vals, spread, gens,
                    lo, control, sent, current, hist, rs, ad >>

\* language.validateEnvironment(environment) and what follows it in the
\* body of the loop
Validate ==
    /\ pc = "validating"
    /\ \E v \in ValidationOutcomes(LookupSearch(opts.search)), d \in Durations :
        LET id == Len(vals) + 1
            environment == Deref(current, environments, lo)
        IN  /\ now' = now + d
            /\ vals' = Append(vals, v)
            /\ hist' = Append(hist, Event("validate", environment.id + 1, id,
                                          environment))
            /\ IF IsSuccess(v)
               THEN /\ im' = [ im EXCEPT !.numValidations = @ + 1,
                                         !.validation = id,
                                         !.end = now' ]
                    /\ outcome' = [ NoOutcome EXCEPT !.kind = "success",
                                                     !.environment = environment ]
                    /\ pc' = "done"
                    /\ UNCHANGED sent
               ELSE /\ im' = [ im EXCEPT !.numValidations = @ + 1,
                                         !.failedValidations =
                                            UnionWith(@, id, vals') ]
                    /\ sent' = id
                    /\ pc' = "next"
                    /\ UNCHANGED outcome
    /\ UNCHANGED << opts, environments, resolved, spread, gens, lo, control,
                    current, rs, ad >>

-----------------------------------------------------------------------------
(* The inference run                                                         *)

RsIdle == [ pc |-> "idle" ]

AdIdle == [ pc |-> "idle" ]

Init ==
    /\ opts \in [ search : Searches, noValidate : BOOLEAN, matrix : UpgradeWorlds ]
    /\ pc = "enter"
    /\ environments = << >>
    /\ resolved = {}
    /\ now = 0
    /\ im = NoInferenceMetadata
    /\ vals = << >>
    /\ spread = SpreadIdle
    /\ gens = << >>
    /\ lo = LevelOrderInit(<< >>)
    /\ control = NoControl
    /\ sent = 0
    /\ current = NoCurrent
    /\ outcome = NoOutcome
    /\ hist = << >>
    /\ rs = RsIdle
    /\ ad = AdIdle

Next ==
    \/ Enter
    \/ Parse
    \/ \E r \in 1 .. Len(PARSERS) : Resolve(r)
    \/ Begin
    \/ AdvanceSpread
    \/ AdvanceLevelOrder
    \/ LoopTop
    \/ Validate

Spec == Init /\ [][Next]_vars

-----------------------------------------------------------------------------
(* Dependency resolution of one environment: lookupDirectDependencies and    *)
(* lookupTransitiveDependencies.  A name is a sequence of characters.  The  *)
(* knowledge graph and the package registry are external: the graph is one  *)
(* of a few small worlds, the registry holds three packages and answers a   *)
(* query whose normalized name is that of one of them.                      *)

ToLowerChar(c) == IF c = "A" THEN "a" ELSE c

\* String.prototype.toLowerCase
ToLowerCase(name) == [ i \in DOMAIN name |-> ToLowerChar(name[i]) ]

\* String.prototype.replace(pattern, replacement) with a string pattern:
\* only the first occurrence is replaced
ReplaceFirst(name, pattern, replacement) ==
    IF \E i \in DOMAIN name : name[i] = pattern
    THEN [ name EXCEPT ![CHOOSE i \in DOMAIN name :
                            /\ name[i] = pattern
                            /\ \A j \in 1 .. (i - 1) : name[j] # pattern] = replacement ]
    ELSE name

\* PIPStrategy.normalizePackageName
normalizePackageName(pkg) == ReplaceFirst(ToLowerCase(pkg), "_", "-")

\* names of the small world
NameAb == << "A", "-", "b" >>
Nameab == << "a", "_", "b" >>
NameC  == << "c" >>
NameD  == << "d" >>
NameZ  == << "z" >>

\* the canonical names (info.name) of the packages the registry holds
Registry == { NameAb, NameC, NameD }

\* the version the registry reports as info.version
RegistryVersion == << 1, 0 >>

\* PIPStrategy.searchForExactPackageMatch(name): << match >>, or << >> for null
searchForExactPackageMatch(name) ==
    LET found == { n \in Registry : normalizePackageName(n) = normalizePackageName(name) }
    IN  IF found = {} THEN << >>
        ELSE << [ name |-> CHOOSE n \in found : TRUE, version |-> RegistryVersion,
                  system |-> pip ] >>

\* what the graph may answer to RESOURCE_LOOKUP: per resource, the names of
\* the packages of its records, in order
GraphWorlds ==
    { (Nameab :> << NameAb >>) @@ (NameC :> << >>) @@ (NameZ :> << NameZ >>),
      (Nameab :> << NameC >>)  @@ (NameC :> << >>) @@ (NameZ :> << >>),
      (Nameab :> << NameC, NameAb >>) @@ (NameC :> << NameC >>) @@ (NameZ :> << >>) }

\* the imported resources of the snippet
ImportedResources ==
    { r \in { << >>, << Nameab >>, << NameC >>, << Nameab, NameC >>,
               << NameZ, NameC >>, << NameC, Nameab, NameZ >> } :
        Len(r) <= MaxResources }

\* the edges of a graph world: per package name, the names RESOURCE_DEP_LOOKUP
\* (deps) and ASSOCIATION_DEP_LOOKUP (assoc) return for it, in order
NoEdges == [ n \in { NameAb, NameC, NameD, NameZ } |-> << >> ]

Edges(ab, c, d) == (NameAb :> ab) @@ (NameC :> c) @@ (NameD :> d) @@ NoEdges

\* the prerequisite edges the graph may hold: a cycle between two registered
\* packages; a diamond; a chain whose halves come from the two queries; a
\* graph that has a cycle only when both queries are used
DependencyWorlds ==
    { [ deps  |-> Edges(<< NameC >>, << NameAb, NameZ >>, << >>),
        assoc |-> NoEdges ],
      [ deps  |-> Edges(<< NameC, NameD >>, << NameD >>, << >>),
        assoc |-> Edges(<< >>, << >>, << NameZ >>) ],
      [ deps  |-> Edges(<< >>, << NameAb >>, << >>),
        assoc |-> Edges(<< NameD >>, << NameAb >>, << >>) ],
      [ deps  |-> Edges(<< NameC >>, << NameD >>, << >>),
        assoc |-> Edges(<< >>, << NameAb >>, << >>) ] }

\* a UNION b of two query results: the rows of a, then the rows of b that
\* are not among them
QueryUnion(a, b) ==
    a \o SelectSeq(b, LAMBDA n : \A i \in DOMAIN a : a[i] # n)

\* the names the dependency query returns for a package name under the
\* selected only mode
QueriedNames(world, only, name) ==
    IF name \notin DOMAIN world.deps THEN << >>
    ELSE IF only = "deps" THEN world.deps[name]
    ELSE IF only = "assoc" THEN world.assoc[name]
    ELSE QueryUnion(world.deps[name], world.assoc[name])

\* results.records of the dependency query for a node
DependencyRecords(world, only, name) ==
    [ k \in DOMAIN QueriedNames(world, only, name) |->
        [ name |-> QueriedNames(world, only, name)[k], system |-> pip ] ]

\* _.some(items, object): some item has every property of object
Some(items, object) == \E i \in DOMAIN items : items[i] = object

\* _.some(lookup.items, { name, system })
SomeNamed(items, name, system) ==
    \E i \in DOMAIN items : items[i].name = name /\ items[i].system = system

\* the id under which a node is remembered by the transitive search
NodeId(node) == << normalizePackageName(node.name), node.system >>

\* a marking that remembers only the nodes whose query returns rows
EncounterInner(st, node) ==
    IF DependencyRecords(st.world, st.only, node.name) = << >> THEN st
    ELSE [ st EXCEPT !.encounteredPackages = @ \cup { NodeId(node) } ]

\* encounteredPackages.add(nodeId)
Encounter(st, node) ==
    [ st EXCEPT !.encounteredPackages = @ \cup { NodeId(node) } ]

\* driver.session().run(query, node), kept (ghost) as the id of the node
RunQuery(st, node) == [ st EXCEPT !.queried = Append(@, NodeId(node)) ]

\* the node whose match enters installOrder, kept (ghost) as its id
InstallOrderPush(match, node, st) ==
    IF match = << >> THEN st
    ELSE [ st EXCEPT !.pushed = Append(@, NodeId(node)) ]

\* the transitive search: dfs(node) and its loop over the records
RECURSIVE Dfs(_, _, _)
RECURSIVE DfsRecords(_, _, _)
\* the tail of dfs: the node itself is matched and pushed
DfsPush(match, root, st) ==
    IF match = << >> THEN st
    ELSE IF root = match[1]
    THEN [ st EXCEPT !.installOrder = Append(@, match[1]) ]
    ELSE [ st EXCEPT !.installOrder = Append(@, match[1]),
                     !.items = Append(@, match[1]),
                     !.count = @ + 1 ]

\* a search that pushes a node before its prerequisites are searched
DfsPreOrder(node, root, st) ==
    IF NodeId(node) \in st.encounteredPackages THEN st
    ELSE DfsRecords(DependencyRecords(st.world, st.only, node.name), root,
                    DfsPush(searchForExactPackageMatch(node.name), root,
                            [ st EXCEPT !.encounteredPackages = @ \cup { NodeId(node) } ]))

Dfs(node, root, st) ==
    IF NodeId(node) \in st.encounteredPackages THEN st
    ELSE InstallOrderPush(searchForExactPackageMatch(node.name), node,
           DfsPush(searchForExactPackageMatch(node.name), root,
                   DfsRecords(DependencyRecords(st.world, st.only, node.name), root,
                              RunQuery(Encounter(st, node), node))))

DfsRecords(records, root, st) ==
    IF records = << >> THEN st
    ELSE DfsRecords(Tail(records), root,
                    IF << Head(records).name, Head(records).system >>
                            \notin st.encounteredPackages
                    THEN Dfs(Head(records), root, st)
                    ELSE st)

\* while (root = dependencies.shift()) await dfs(root)
RECURSIVE TransitiveLoop(_, _)
TransitiveLoop(dependencies, st) ==
    IF dependencies = << >> THEN st
    ELSE TransitiveLoop(Tail(dependencies),
                        Dfs(Head(dependencies), Head(dependencies), st))

\* world and only stand for the driver session and options.only
lookupTransitiveDependencies(dependencies, only, world) ==
    TransitiveLoop(dependencies,
                   [ encounteredPackages |-> {}, items |-> << >>,
                     installOrder |-> << >>, count |-> 0,
                     only |-> only, world |-> world,
                     queried |-> << >>, pushed |-> << >> ])

\* the queries and the pushes of the transitive search of infer (ghost)
NoSearch == [ queried |-> << >>, pushed |-> << >> ]

SearchTrace(only, items, world) ==
    IF only # "none"
    THEN [ queried |-> lookupTransitiveDependencies(items, only, world).queried,
           pushed  |-> lookupTransitiveDependencies(items, only, world).pushed ]
    ELSE NoSearch

\* environment.dependencies as the Bluebird.map callback of infer sets it
ResolvedDependencies(only, items, world) ==
    IF only # "none" THEN lookupTransitiveDependencies(items, only, world).installOrder
    ELSE items

\* lookupDirectDependencies has just been called: every resource has its
\* own callback, about to query the graph
ResolutionInit(only, resources, graph, world) ==
    [ pc                     |-> "direct",
      only                   |-> only,
      resources              |-> resources,
      graph                  |-> graph,
      world                  |-> world,
      items                  |-> << >>,
      count                  |-> 0,
      nameResolutions        |-> 0,
      resourcePackageMapping |-> << >>,
      procs                  |-> [ i \in DOMAIN resources |->
                                     [ pc |-> "query", pending |-> {} ] ],
      dependencies           |-> << >>,
      search                 |-> NoSearch,
      log                    |-> {} ]

\* logger.info of a failure, kept (ghost) as the message and the name it is
\* about when cond holds
Logged(lookup, cond, message, name) ==
    IF cond THEN [ lookup EXCEPT !.log = @ \cup { [ message |-> message, name |-> name ] } ]
    ELSE lookup

\* a match found for a record of a resource: pushed unless an equal item is
\* there already
PushMatch(lookup, resource, match) ==
    IF match = << >> \/ Some(lookup.items, match[1]) THEN lookup
    ELSE [ lookup EXCEPT
             !.nameResolutions = @ + 1,
             !.items = Append(@, match[1]),
             !.resourcePackageMapping =
                 Append(@, [ resource |-> resource, package |-> match[1].name ]) ]

\* the record found for the resource's own name: pushed as it is
PushRecord(lookup, resource, record) ==
    IF record = << >> THEN lookup
    ELSE [ lookup EXCEPT
             !.items = Append(@, record[1]),
             !.resourcePackageMapping =
                 Append(@, [ resource |-> resource, package |-> record[1].name ]) ]

\* the graph answers the query of resource i: one lookup per record starts
Query(i) ==
    /\ rs.pc = "direct"
    /\ i \in DOMAIN rs.procs
    /\ rs.procs[i].pc = "query"
    /\ rs' = [ Logged(rs, rs.graph[rs.resources[i]] = << >>,
                      "Could not perform a reverse package lookup for resource:",
                      rs.resources[i])
               EXCEPT !.procs[i] =
                 [ pc |-> "records",
                   pending |-> DOMAIN rs.graph[rs.resources[i]] ] ]
    /\ UNCHANGED << inferVars, ad >>

\* the registry answers the lookup of record k of resource i
RecordMatch(i, k) ==
    /\ rs.pc = "direct"
    /\ i \in DOMAIN rs.procs
    /\ rs.procs[i].pc = "records"
    /\ k \in rs.procs[i].pending
    /\ rs' = [ PushMatch(Logged(rs,
                                searchForExactPackageMatch(rs.graph[rs.resources[i]][k]) = << >>,
                                "Package system could not find package",
                                rs.graph[rs.resources[i]][k]),
                         rs.resources[i],
                         searchForExactPackageMatch(rs.graph[rs.resources[i]][k]))
               EXCEPT !.procs[i].pending = @ \ { k } ]
    /\ UNCHANGED << inferVars, ad >>

\* all records of resource i are done: unless an item carries the name of
\* the resource, the registry is asked for that name
Fallback(i) ==
    /\ rs.pc = "direct"
    /\ i \in DOMAIN rs.procs
    /\ rs.procs[i].pc = "records"
    /\ rs.procs[i].pending = {}
    /\ rs' = IF ~SomeNamed(rs.items, rs.resources[i], pip)
             THEN [ rs EXCEPT !.procs[i].pc = "fallback" ]
             ELSE [ rs EXCEPT !.procs[i].pc = "done",
                              !.nameResolutions = @ - 1 ]
    /\ UNCHANGED << inferVars, ad >>

\* the registry answers the lookup of the name of resource i
FallbackMatch(i) ==
    /\ rs.pc = "direct"
    /\ i \in DOMAIN rs.procs
    /\ rs.procs[i].pc = "fallback"
    /\ rs' = [ PushRecord(Logged(rs, searchForExactPackageMatch(rs.resources[i]) = << >>,
                                 "No exact match found for resource:", rs.resources[i]),
                          rs.resources[i],
                          searchForExactPackageMatch(rs.resources[i]))
               EXCEPT !.procs[i].pc = "done" ]
    /\ UNCHANGED << inferVars, ad >>

\* every callback is done: the count is set, and the rest of the callback
\* of infer sets the dependencies of the environment
FinishResolution ==
    /\ rs.pc = "direct"
    /\ \A i \in DOMAIN rs.procs : rs.procs[i].pc = "done"
    /\ rs' = [ rs EXCEPT !.pc = "resolved",
                         !.count = Len(rs.items),
                         !.dependencies = ResolvedDependencies(rs.only, rs.items, rs.world),
                         !.search = SearchTrace(rs.only, rs.items, rs.world) ]
    /\ UNCHANGED << inferVars, ad >>

-----------------------------------------------------------------------------
(* The resolution of one environment                                        *)

OnlyOptions == { "none", "deps", "assoc", "all" }

ResolveInit ==
    /\ opts = [ search |-> "feedback-directed", noValidate |-> FALSE,
                matrix |-> "nearest-first" ]
    /\ pc = "resolve"
    /\ environments = << NewEnvironment(0, PARSERS[1]) >>
    /\ resolved = {}
    /\ now = 0
    /\ im = NoInferenceMetadata
    /\ vals = << >>
    /\ spread = SpreadIdle
    /\ gens = << >>
    /\ lo = LevelOrderInit(<< >>)
    /\ control = NoControl
    /\ sent = 0
    /\ current = NoCurrent
    /\ outcome = NoOutcome
    /\ hist = << >>
    /\ ad = AdIdle
    /\ \E only \in OnlyOptions, resources \in ImportedResources,
          graph \in GraphWorlds, world \in DependencyWorlds :
        rs = ResolutionInit(only, resources, graph, world)

ResolveNext ==
    \/ \E i \in 1 .. MaxResources : Query(i)
    \/ \E i \in 1 .. MaxResources, k \in 1 .. MaxResources : RecordMatch(i, k)
    \/ \E i \in 1 .. MaxResources : Fallback(i)
    \/ \E i \in 1 .. MaxResources : FallbackMatch(i)
    \/ FinishResolution

SpecResolve == ResolveInit /\ [][ResolveNext]_vars

-----------------------------------------------------------------------------
(* The package-system adapters: pure operations                             *)
(* A version string is kept as its numeric parts and the suffix that        *)
(* follows them ("" when there is none): "1.0" is [parts |-> <<1, 0>>,      *)
(* pre |-> ""], "1.0.0-rc1" is [parts |-> <<1, 0, 0>>, pre |-> "rc1"].      *)

VersionString(parts, pre) == [ parts |-> parts, pre |-> pre ]

VersionStrings ==
    { VersionString(parts, pre) :
        parts \in { << 1, 0 >>, << 1, 0, 0 >>, << 1, 1, 0 >>, << 0, 1 >> },
        pre \in { "", "rc1" } }

\* the lists of versions handed to sortPackageVersions: no string twice
VersionLists ==
    { l \in UNION { [ 1 .. n -> VersionStrings ] : n \in 0 .. MaxVersions } :
        \A i, j \in DOMAIN l : i # j => l[i] # l[j] }

\* a semver.SemVer object
SemVer(major, minor, patch, prerelease) ==
    [ major |-> major, minor |-> minor, patch |-> patch, prerelease |-> prerelease ]

\* semver.coerce(val): the first numeric parts, the missing ones 0, nothing
\* else
SemverCoerce(val) ==
    SemVer(val.parts[1],
           IF Len(val.parts) >= 2 THEN val.parts[2] ELSE 0,
           IF Len(val.parts) >= 3 THEN val.parts[3] ELSE 0,
           "")

\* VersionUtils.coerceSemver: a string of three numeric parts parses as it
\* is (loose, with its prerelease); any other string is coerced and what
\* follows its numeric prefix is attached as the prerelease
coerceSemver(val) ==
    IF Len(val.parts) = 3
    THEN SemVer(val.parts[1], val.parts[2], val.parts[3], val.pre)
    ELSE LET version == SemverCoerce(val)
             prerelease == val.pre
         IN  IF prerelease = "" THEN version
             ELSE SemVer(version.major, version.minor, version.patch, prerelease)

\* v.version: the canonical string of a SemVer object
CanonicalVersion(v) == VersionString(<< v.major, v.minor, v.patch >>, v.prerelease)

\* SemVer.compare: -1, 0 or 1; a prerelease comes before its release
SemverCompare(a, b) ==
    IF a.major # b.major THEN (IF a.major < b.major THEN -1 ELSE 1)
    ELSE IF a.minor # b.minor THEN (IF a.minor < b.minor THEN -1 ELSE 1)
    ELSE IF a.patch # b.patch THEN (IF a.patch < b.patch THEN -1 ELSE 1)
    ELSE IF a.prerelease = b.prerelease THEN 0
    ELSE IF a.prerelease = "" THEN 1
    ELSE -1

\* Array.prototype.sort(comp), stable: x goes after the elements that do
\* not come after it
RECURSIVE InsertSorted(_, _, _)
InsertSorted(x, sorted, ascending) ==
    IF sorted = << >> THEN << x >>
    ELSE IF (IF ascending THEN SemverCompare(x, Head(sorted))
                          ELSE -SemverCompare(x, Head(sorted))) < 0
    THEN << x >> \o sorted
    ELSE << Head(sorted) >> \o InsertSorted(x, Tail(sorted), ascending)

RECURSIVE SortSemver(_, _)
SortSemver(versions, ascending) ==
    IF versions = << >> THEN << >>
    ELSE InsertSorted(Last(versions), SortSemver(Front(versions), ascending), ascending)

\* APTStrategy.sortPackageVersions(versions, ascending, cutoff)
aptSortPackageVersions(versions, ascending, cutoff) ==
    LET coerced  == [ i \in DOMAIN versions |-> coerceSemver(versions[i]) ]
        limit    == coerceSemver(cutoff)
        sorted   == SortSemver(coerced, ascending)
        filtered == SelectSeq(sorted,
                              LAMBDA v : IF ascending
                                         THEN SemverCompare(v, limit) >= 0
                                         ELSE SemverCompare(v, limit) <= 0)
    IN  [ i \in DOMAIN filtered |-> CanonicalVersion(filtered[i]) ]

\* SystemStrategy.normalizePackageName, which the APT adapter inherits
systemNormalizePackageName(pkg) == pkg

\* the adapters, and normalizePackageName of each
Adapters == { "pip", "apt" }

NormalizeName(adapter, pkg) ==
    IF adapter = "pip" THEN normalizePackageName(pkg)
    ELSE systemNormalizePackageName(pkg)

\* the package names given to normalizePackageName
NameAlphabet == { "A", "a", "_", "-" }

PackageNameInputs == UNION { [ 1 .. n -> NameAlphabet ] : n \in 0 .. MaxNameLen }

\* a call of sortPackageVersions of the APT adapter
SortVersions ==
    /\ ad.pc = "input"
    /\ \E versions \in VersionLists, ascending \in BOOLEAN, cutoff \in VersionStrings :
        ad' = [ pc        |-> "sorted",
                versions  |-> versions,
                ascending |-> ascending,
                cutoff    |-> cutoff,
                result    |-> aptSortPackageVersions(versions, ascending, cutoff) ]
    /\ UNCHANGED << inferVars, rs >>

\* a call of normalizePackageName, and a second call on its result
NormalizePackageName ==
    /\ ad.pc = "input"
    /\ \E adapter \in Adapters, pkg \in PackageNameInputs :
        ad' = [ pc      |-> "normalized",
                adapter |-> adapter,
                pkg     |-> pkg,
                once    |-> NormalizeName(adapter, pkg),
                twice   |-> NormalizeName(adapter, NormalizeName(adapter, pkg)) ]
    /\ UNCHANGED << inferVars, rs >>

\* frames of a stack trace: lines of the script under validation, files of
\* the managed packages p and q, and files of a third-party package x that is
\* no dependency
MaxFrames == 3

ScriptFrames == { Frame(FALSE, "", line) : line \in 1 .. 3 }

SiteFrames == { Frame(TRUE, pkg, 7) : pkg \in { "p", "x" } }

\* the script under validation is at the root of every stack trace
Stacks ==
    { << >> } \cup
    UNION { { << root >> \o rest : root \in ScriptFrames,
                                   rest \in [ 1 .. n -> ScriptFrames \cup SiteFrames ] }
            : n \in 0 .. (MaxFrames - 1) }

\* the names of the exceptions a script may end with
ExceptionNames ==
    IMPORT_ERRORS \cup { "TypeError", "AttributeError", "NameError", "FileNotFoundError" }

\* validations with an execution exception
FailedValidations ==
    { Validation("Failed", TRUE, "Failed", name, resource, stack) :
        name \in ExceptionNames, resource \in { "", "p", "q" }, stack \in Stacks }

\* what firstExecutionException may be given: failed executions of every stack
\* and validations without an execution exception
ComparedValidations ==
    { Validation("Failed", TRUE, "Failed", "TypeError", "", stack) : stack \in Stacks }
        \cup { VTimeout, VSuccess }

\* environments after resolution: resolveDirectDependencies maps a resource
\* to the name of every package found for it, of whatever package system
StrategyEnvironments ==
    { [ dependencies |-> << >>, mapping |-> << >> ],
      [ dependencies |-> << NewestDep("p"), NewestDep("q") >>,
        mapping |-> << [ resource |-> "p", package |-> "p" ],
                       [ resource |-> "q", package |-> "q" ] >> ],
      [ dependencies |-> << NewestDep("p"), NewestDep("q") >>,
        mapping |-> << [ resource |-> "q", package |-> "p" ],
                       [ resource |-> "q", package |-> "q" ] >> ],
      [ dependencies |-> << [ NewestDep("p") EXCEPT !.system = "apt" ],
                            NewestDep("p") >>,
        mapping |-> << [ resource |-> "p", package |-> "p" ] >> ],
      [ dependencies |-> << NewestDep("p"),
                            [ NewestDep("q") EXCEPT !.system = "apt" ] >>,
        mapping |-> << [ resource |-> "p", package |-> "p" ],
                       [ resource |-> "q", package |-> "q" ] >> ] }

\* a call of firstExecutionException
FirstExecutionException ==
    /\ ad.pc = "input"
    /\ \E v1, v2 \in ComparedValidations :
        ad' = [ pc    |-> "compared",
                v1    |-> v1,
                v2    |-> v2,
                first |-> firstExecutionException(v1, v2) ]
    /\ UNCHANGED << inferVars, rs >>

\* a call of isRepairableVersionError
IsRepairableVersionError ==
    /\ ad.pc = "input"
    /\ \E env \in StrategyEnvironments, v \in FailedValidations :
        ad' = [ pc          |-> "classified",
                environment |-> env,
                validation  |-> v,
                repairable  |-> isRepairableVersionError(env, v) ]
    /\ UNCHANGED << inferVars, rs >>

\* a call of dependencyProducingException
DependencyProducingException ==
    /\ ad.pc = "input"
    /\ \E env \in StrategyEnvironments, v \in FailedValidations :
        ad' = [ pc          |-> "blamed",
                environment |-> env,
                validation  |-> v,
                index       |-> dependencyProducingException(env, v) ]
    /\ UNCHANGED << inferVars, rs >>

\* nothing of the inference run or of resolution takes part
IdleInference ==
    /\ opts = [ search |-> "feedback-directed", noValidate |-> FALSE,
                matrix |-> "nearest-first" ]
    /\ pc = "idle"
    /\ environments = << >>
    /\ resolved = {}
    /\ now = 0
    /\ im = NoInferenceMetadata
    /\ vals = << >>
    /\ spread = SpreadIdle
    /\ gens = << >>
    /\ lo = LevelOrderInit(<< >>)
    /\ control = NoControl
    /\ sent = 0
    /\ current = NoCurrent
    /\ outcome = NoOutcome
    /\ hist = << >>
    /\ rs = RsIdle

FunctionsInit ==
    /\ IdleInference
    /\ ad = [ pc |-> "input" ]

FunctionsNext ==
    \/ SortVersions
    \/ NormalizePackageName
    \/ FirstExecutionException
    \/ IsRepairableVersionError
    \/ DependencyProducingException

SpecFunctions == FunctionsInit /\ [][FunctionsNext]_vars

-----------------------------------------------------------------------------
(* The package-system adapters: the version cache                           *)
(* One adapter, its redis database, the upstream it queries (the PyPI       *)
(* registry, or the apt-versions sandbox) and a clock.  Calls do not        *)
(* overlap: a call is one step.  A value of the program is a record with a  *)
(* kind; an optional argument is << >> when it is left out.                 *)

\* seconds after which a cache entry is stale
PIP_TTL == 3600
APT_TTL == 604800

\* calls of the adapter in one behaviour
MaxCalls == 2

\* releases upstream publishes for one package
MaxRevision == 2

Undefined == [ kind |-> "undefined" ]

Null == [ kind |-> "null" ]

\* ToBoolean of a definition: an object and an array (even an empty one) are
\* truthy
Truthy(value) == value.kind \notin { "undefined", "null" }

\* redis.existsAsync(pkg) is false
NoEntry == [ kind |-> "none" ]

\* the adapter's TTL
TTL(system) == IF system = "pip" THEN PIP_TTL ELSE APT_TTL

\* the JSON value stored under the package name
CacheEntry(definition, etag, updated) ==
    [ kind |-> "entry", definition |-> definition, etag |-> etag, updated |-> updated ]

\* the names the adapter is asked about: two spellings, which the PIP adapter
\* normalizes to one key and the APT adapter keeps apart
AdapterNames == { Nameab, NameAb }

\* the cache keys of an adapter
AdapterKeys(system) == { NormalizeName(system, n) : n \in AdapterNames }

\* the versions upstream holds at a revision of a package; none at revision 0
ReleasedVersions(rev) == { << 1, k >> : k \in 0 .. (rev - 1) }

\* the body of GET <pkg>/json: info.name is the name as it was registered
PyPIDefinition(key, rev, files) ==
    [ kind     |-> "object",
      info     |-> [ name    |-> IF key = normalizePackageName(NameAb) THEN NameAb ELSE key,
                     version |-> << 1, rev - 1 >> ],
      releases |-> [ v \in ReleasedVersions(rev) |-> IF files THEN 1 ELSE 0 ] ]

\* the registry's answer to a request with If-None-Match: etag (0: none)
PyPIResponse(key, rev, files, etag, fault) ==
    IF fault THEN [ statusCode |-> "Internal Server Error", body |-> Undefined, etag |-> 0 ]
    ELSE IF rev = 0 THEN [ statusCode |-> "Not Found", body |-> Undefined, etag |-> 0 ]
    ELSE IF etag = rev THEN [ statusCode |-> "Not Modified", body |-> Undefined, etag |-> rev ]
    ELSE [ statusCode |-> "OK", body |-> PyPIDefinition(key, rev, files), etag |-> rev ]

\* the output of the apt-versions sandbox: the versions apt-cache madison
\* lists, newest first
AptVersions(rev) == [ kind |-> "array", items |-> SortDescending(ReleasedVersions(rev)) ]

\* a stale flag that never trusts an entry
AlwaysStale(definition, clock, updated, ttl) == Truthy(definition)

\* stale = definition && (now - updated) > ttl
IsStale(definition, clock, updated, ttl) ==
    Truthy(definition) /\ (clock - updated) > ttl

\* JSON.SET inside try/catch: a failed write is logged and the call goes on
Store(cache, key, entry, writeFails) ==
    IF writeFails THEN cache ELSE [ cache EXCEPT ![key] = entry ]

\* what a call leaves: the cache, whether it queried upstream, whether it
\* threw, the definition it returns, and the time its answer was validated
Answer(cache, queried, threw, definition, validated) ==
    [ cache |-> cache, queried |-> queried, threw |-> threw,
      definition |-> definition, validated |-> validated ]

\* PIPStrategy.getPackageDefinition(pkg)
getPackageDefinition(st, pkg, fault, writeFails) ==
    LET key        == normalizePackageName(pkg)
        entry      == st.cache[key]
        hit        == entry.kind = "entry"
        definition == IF hit THEN entry.definition ELSE Undefined
        etag       == IF hit THEN entry.etag ELSE 0
        updated    == IF hit THEN entry.updated ELSE 0
        stale      == IsStale(definition, st.clock, updated, TTL("pip"))
    IN  IF ~(definition = Undefined \/ stale)
        THEN Answer(st.cache, FALSE, FALSE, definition, updated)
        ELSE LET response == PyPIResponse(key, st.upstream[key], st.files, etag, fault)
             IN  CASE response.statusCode = "Not Found" ->
                        Answer(Store(st.cache, key, CacheEntry(Null, 0, st.clock), writeFails),
                               TRUE, FALSE, Null, st.clock)
                   [] response.statusCode = "Internal Server Error" ->
                        Answer(st.cache, TRUE, TRUE, Undefined, st.clock)
                   [] response.statusCode = "OK" ->
                        Answer(Store(st.cache, key,
                                     CacheEntry(response.body, response.etag, st.clock),
                                     writeFails),
                               TRUE, FALSE, response.body, st.clock)
                   [] OTHER ->
                        Answer(Store(st.cache, key, CacheEntry(definition, etag, st.clock),
                                     writeFails),
                               TRUE, FALSE, definition, st.clock)

\* Array.prototype.sort() of version strings: ascending by code units, which
\* for parts of one digit is the order of the parts
RECURSIVE SortKeys(_)
SortKeys(S) ==
    IF S = {} THEN << >>
    ELSE LET v == Newest(S) IN Append(SortKeys(S \ { v }), v)

\* _.keys(_.get(definition, 'releases', {})).sort()
pipAvailablePackageVersions(definition) ==
    IF definition.kind = "object" THEN SortKeys(DOMAIN definition.releases) ELSE << >>

\* APTStrategy.getAvailablePackageVersions(pkg), fault: the sandbox run failed
aptGetAvailablePackageVersions(st, pkg, fault, writeFails) ==
    LET key        == systemNormalizePackageName(pkg)
        entry      == st.cache[key]
        hit        == entry.kind = "entry"
        definition == IF hit THEN entry.definition ELSE Undefined
        updated    == IF hit THEN entry.updated ELSE 0
        stale      == IsStale(definition, st.clock, updated, TTL("apt"))
    IN  IF ~(definition = Undefined \/ stale)
        THEN Answer(st.cache, FALSE, FALSE, definition, updated)
        ELSE IF fault THEN Answer(st.cache, TRUE, TRUE, Undefined, st.clock)
        ELSE Answer(Store(st.cache, key,
                          CacheEntry(AptVersions(st.upstream[key]), 0, st.clock),
                          writeFails),
                    TRUE, FALSE, AptVersions(st.upstream[key]), st.clock)

\* the versions with a release file, of _.flattenDeep(_.values(releases))
ReleasesWithFiles(definition, version) ==
    LET releases == definition.releases
    IN  { v \in DOMAIN releases : releases[v] > 0 /\ (version = << >> \/ version = << v >>) }

\* PIPStrategy.searchForExactPackageMatch, after getPackageDefinition:
\* << match >>, or << >> for null
pipSearchForExactPackageMatch(definition, version) ==
    IF ~Truthy(definition) THEN << >>
    ELSE IF ReleasesWithFiles(definition, version) # {}
    THEN << [ name    |-> definition.info.name,
              version |-> IF version # << >> THEN version
                          ELSE << definition.info.version >>,
              system  |-> "pip" ] >>
    ELSE << >>

\* APTStrategy.searchForExactPackageMatch, after getAvailablePackageVersions;
\* _.first of an empty list is undefined
aptSearchForExactPackageMatch(name, version, versions) ==
    IF version # << >> /\ version[1] \notin Range(versions) THEN << >>
    ELSE << [ name    |-> name,
              version |-> IF version # << >> THEN version
                          ELSE IF versions = << >> THEN << >>
                          ELSE << Head(versions) >>,
              system  |-> "apt" ] >>

\* the answer of the adapter's cached lookup
Lookup(st, pkg, fault, writeFails) ==
    IF st.system = "pip" THEN getPackageDefinition(st, pkg, fault, writeFails)
    ELSE aptGetAvailablePackageVersions(st, pkg, fault, writeFails)

\* the version list a definition gives
VersionsOf(system, definition) ==
    IF system = "pip" THEN pipAvailablePackageVersions(definition)
    ELSE IF definition.kind = "array" THEN definition.items
    ELSE << >>

\* the versions of a definition that can be installed
InstallableOf(system, definition) ==
    IF system = "pip"
    THEN (IF definition.kind = "object" THEN ReleasesWithFiles(definition, << >>) ELSE {})
    ELSE Range(VersionsOf(system, definition))

\* the record of one call
Call(op, st, pkg, version, answer, match) ==
    [ op        |-> op,
      key       |-> NormalizeName(st.system, pkg),
      version   |-> version,
      now       |-> st.clock,
      queried   |-> answer.queried,
      threw     |-> answer.threw,
      stored    |-> answer.cache[NormalizeName(st.system, pkg)] # NoEntry
                    /\ answer.cache[NormalizeName(st.system, pkg)].updated = answer.validated,
      validated |-> answer.validated,
      versions  |-> VersionsOf(st.system, answer.definition),
      available |-> InstallableOf(st.system, answer.definition),
      match     |-> match ]

\* the adapter after a call; calls keeps the records of the last two calls
Called(st, answer, call) ==
    [ st EXCEPT !.cache  = answer.cache,
                !.calls  = IF Len(@) = 2 THEN << @[2], call >> ELSE Append(@, call),
                !.count  = @ + 1,
                !.ticked = FALSE ]

\* availableVersions(pkg)
GetAvailablePackageVersions ==
    /\ ad.pc = "adapter"
    /\ ad.count < MaxCalls
    /\ \E pkg \in AdapterNames, fault \in BOOLEAN, writeFails \in BOOLEAN :
        ad' = Called(ad, Lookup(ad, pkg, fault, writeFails),
                     Call("availableVersions", ad, pkg, << >>,
                          Lookup(ad, pkg, fault, writeFails), << >>))
    /\ UNCHANGED << inferVars, rs >>

\* exactMatch(name, version?)
ExactMatch ==
    /\ ad.pc = "adapter"
    /\ ad.count < MaxCalls
    /\ \E name \in AdapterNames, fault \in BOOLEAN, writeFails \in BOOLEAN,
          version \in { << >> } \cup { << v >> : v \in ReleasedVersions(MaxRevision) } :
        LET answer == Lookup(ad, name, fault, writeFails)
            match  == IF answer.threw THEN << >>
                      ELSE IF ad.system = "pip"
                      THEN pipSearchForExactPackageMatch(answer.definition, version)
                      ELSE aptSearchForExactPackageMatch(name, version,
                                                         VersionsOf("apt", answer.definition))
        IN  ad' = Called(ad, answer, Call("exactMatch", ad, name, version, answer, match))
    /\ UNCHANGED << inferVars, rs >>

\* the time that passes before the next call: a second, the adapter's whole
\* TTL, or a second more than that
Tick ==
    /\ ad.pc = "adapter"
    /\ ~ad.ticked
    /\ ad.count < MaxCalls
    /\ \E step \in { 1, TTL(ad.system), TTL(ad.system) + 1 } :
        ad' = [ ad EXCEPT !.clock = @ + step, !.ticked = TRUE ]
    /\ UNCHANGED << inferVars, rs >>

\* upstream publishes a release of a package
Publish ==
    /\ ad.pc = "adapter"
    /\ ad.count < MaxCalls
    /\ \E key \in DOMAIN ad.upstream :
        /\ ad.upstream[key] < MaxRevision
        /\ ad' = [ ad EXCEPT !.upstream[key] = @ + 1 ]
    /\ UNCHANGED << inferVars, rs >>

AdapterInit ==
    /\ IdleInference
    /\ \E system \in Adapters, files \in BOOLEAN :
        \E upstream \in [ AdapterKeys(system) -> 0 .. 1 ] :
            /\ system = "apt" => files
            /\ ad = [ pc       |-> "adapter",
                      system   |-> system,
                      files    |-> files,
                      upstream |-> upstream,
                      cache    |-> [ key \in AdapterKeys(system) |-> NoEntry ],
                      clock    |-> 0,
                      ticked   |-> FALSE,
                      calls    |-> << >>,
                      count    |-> 0 ]

\* calls of availableVersions, while time passes and upstream publishes
AdapterNext ==
    \/ GetAvailablePackageVersions
    \/ Tick
    \/ Publish

SpecAdapter == AdapterInit /\ [][AdapterNext]_vars

\* calls of exactMatch, while time passes and upstream publishes
ExactMatchNext ==
    \/ ExactMatch
    \/ Tick
    \/ Publish

SpecExactMatch == AdapterInit /\ [][ExactMatchNext]_vars

-----------------------------------------------------------------------------
(* IDDFS alone: one root, resumed until it ends                             *)

\* the mutants one root may yield (the n of IDDFS)
MaxMutants == 6

\* the dependency lists a root may start from: p and q, each at any of its
\* versions or absent
RootLists ==
    { p \o q : p \in { << >> } \cup { << Dep("p", v) >> : v \in AvailableVersions("p") },
               q \in { << >> } \cup { << Dep("q", v) >> : v \in AvailableVersions("q") } }

\* the validation records the caller may pass back
Feedbacks == << VImportInP, VTypeError, VSuccess >>

IterationInit ==
    /\ opts = [ search |-> "id-dfs", noValidate |-> FALSE, matrix |-> "nearest-first" ]
    /\ pc = "idle"
    /\ \E deps \in RootLists :
        environments = << [ NewEnvironment(0, "python2-parse") EXCEPT
                              !.dependencies = deps,
                              !.rootDependencies = deps ] >>
    /\ resolved = {}
    /\ now = 0
    /\ im = NoInferenceMetadata
    /\ vals = Feedbacks
    /\ spread = SpreadIdle
    /\ gens = << IDDFSInit(MaxMutants) >>
    /\ lo = LevelOrderInit(<< >>)
    /\ control = NoControl
    /\ sent = 0
    /\ current = NoCurrent
    /\ outcome = NoOutcome
    /\ hist = << >>
    /\ rs = RsIdle
    /\ ad = AdIdle

\* what generator.next(validation) gave: the generator, the environment it
\* mutates in place, and the yield or the end in the history
Iterated(res, validation) ==
    /\ gens' = << res.g >>
    /\ environments' = << res.env >>
    /\ sent' = validation
    /\ hist' = Append(hist, IF res.done THEN Event("finish", 1, 0, NoEnvironment)
                            ELSE Event("yield", 1, 0, res.env))

\* generator.next(validation), with any validation record
Iterate ==
    /\ gens[1].pc # "done"
    /\ \E validation \in DOMAIN vals :
        Iterated(PerRootNext(gens[1], environments[1], vals, validation), validation)
    /\ UNCHANGED << opts, pc, resolved, now, im, vals, spread, lo, control,
                    current, outcome, rs, ad >>

IterationNext == Iterate

SpecIDDFS == IterationInit /\ [][IterationNext]_vars

-----------------------------------------------------------------------------
(* Reading the history                                                       *)

IsEvent(i, ev) == i \in DOMAIN hist /\ hist[i].ev = ev

\* the positions in the history where root r yielded
YieldsOf(r) == { i \in DOMAIN hist : IsEvent(i, "yield") /\ hist[i].root = r }

YieldCount(r) == Cardinality(YieldsOf(r))

\* root r's generator has completed before position i of the history
FinishedBefore(r, i) ==
    \E k \in 1 .. (i - 1) : IsEvent(k, "finish") /\ hist[k].root = r

Roots == DOMAIN environments

\* a recorded change applied to a dependency list: the package must be there
\* once, at the version the change starts from
ApplyChange(st, package, from, to) ==
    [ ok   |-> /\ st.ok
               /\ Cardinality({ i \in DOMAIN st.deps : st.deps[i].name = package }) = 1
               /\ \A i \in DOMAIN st.deps :
                    st.deps[i].name = package => st.deps[i].version = from,
      deps |-> [ i \in DOMAIN st.deps |->
                   IF st.deps[i].name = package
                   THEN [ st.deps[i] EXCEPT !.version = to ]
                   ELSE st.deps[i] ] ]

\* the changes of a mutation stack applied in stack order
RECURSIVE Replay(_, _)
Replay(st, mutations) ==
    IF mutations = << >> THEN st
    ELSE Replay(ApplyChange(st, Head(mutations).package, Head(mutations).from,
                            Head(mutations).to),
                Tail(mutations))

\* the changes of a mutation stack undone from the top of the stack down
RECURSIVE Unwind(_, _)
Unwind(st, mutations) ==
    IF mutations = << >> THEN st
    ELSE Unwind(ApplyChange(st, Last(mutations).package, Last(mutations).to,
                            Last(mutations).from),
                Front(mutations))

Consistent(rootDeps, env) ==
    /\ Replay([ ok |-> TRUE, deps |-> rootDeps ], env.mutations)
         = [ ok |-> TRUE, deps |-> env.dependencies ]
    /\ Unwind([ ok |-> TRUE, deps |-> env.dependencies ], env.mutations)
         = [ ok |-> TRUE, deps |-> rootDeps ]

-----------------------------------------------------------------------------
(* Claims                                                                    *)

\* C1: every environment a search yields (level-order, id-dfs,
\* feedback-directed) carries a mutation stack consistent with its
\* dependency list: the recorded changes (package, from -> to), applied in
\* stack order to the dependency list of its root, give exactly the yielded
\* dependency list, and undone from the top down they give the root's list.
\* Every yield is the last event of the history in the state it leads to.
C1_MutationStackConsistent ==
    (hist # << >> /\ Last(hist).ev = "yield")
        => Consistent(Last(hist).env.rootDependencies, Last(hist).env)

\* a yielded environment two mutations away from its root
C1_Witness ==
    /\ hist # << >>
    /\ Last(hist).ev = "yield"
    /\ Len(Last(hist).env.mutations) >= 2
    /\ opts.search = "feedback-directed"

\* C2: infer returns at the first validation whose status_code is Success:
\* no earlier validation is a Success, the environment returned is the one
\* just validated, with the dependency list and the mutation stack it had
\* when it was yielded, and the run ends with that validation: it is the
\* last thing the history holds, so no generator is advanced and nothing is
\* validated after it.
C2_ReturnsAtFirstSuccess ==
    (outcome.kind = "success" /\ ~opts.noValidate)
        => /\ pc = "done"
           /\ Len(hist) >= 2
           /\ Last(hist).ev = "validate"
           /\ Last(hist).id = Len(vals)
           /\ im.validation = Len(vals)
           /\ vals[Len(vals)].status_code = SUCCESS
           /\ \A k \in 1 .. (Len(vals) - 1) : vals[k].status_code # SUCCESS
           /\ hist[Len(hist) - 1].ev = "yield"
           /\ outcome.environment = hist[Len(hist) - 1].env
           /\ outcome.environment = Last(hist).env
           /\ im.numValidations = Len(vals)

\* a mutated environment returned after failed validations
C2_Witness ==
    /\ outcome.kind = "success"
    /\ Len(vals) >= 3
    /\ Len(outcome.environment.mutations) >= 1

\* the live roots: those whose generator has not completed
Live(r) == gens[r].pc # "done"

\* C3 (as stated): for every prefix of the stream of environments the
\* spreading wrapper yields, the numbers yielded so far for any two roots
\* differ by at most one.
C3_AsStated ==
    spread.created =>
        \A r1, r2 \in Roots : YieldCount(r1) - YieldCount(r2) <= 1

\* C3 (amended): for every prefix of the stream of environments the
\* spreading wrapper yields, the numbers yielded so far for any two roots
\* whose generators have not completed differ by at most one.
C3_LiveRootsBalanced ==
    spread.created =>
        \A r1, r2 \in Roots :
            (Live(r1) /\ Live(r2)) => YieldCount(r1) - YieldCount(r2) <= 1

\* two live roots, each with two environments yielded
C3_Witness ==
    /\ spread.created
    /\ Len(environments) = 2
    /\ \A r \in Roots : Live(r) /\ YieldCount(r) >= 2

\* C4: under the spreading wrapper a per-root generator is resumed only
\* after the environment it last yielded has been validated, and it is
\* resumed with that validation: the first resumption carries nothing, and
\* every later one carries the validation made, right after the root's last
\* yield, of the environment yielded then.
C4_ResumedWithOwnValidation ==
    \A i \in DOMAIN hist :
        (IsEvent(i, "advance") /\ hist[i].root > 0) =>
            LET before == { j \in YieldsOf(hist[i].root) : j < i }
            IN  IF before = {} THEN hist[i].id = 0
                ELSE LET j == CHOOSE j \in before : \A k \in before : k <= j
                     IN  /\ j + 1 < i
                         /\ IsEvent(j + 1, "validate")
                         /\ hist[j + 1].root = hist[i].root
                         /\ hist[j + 1].env = hist[j].env
                         /\ hist[j + 1].id = hist[i].id

\* a root resumed for the second time while another root is searched too
C4_Witness ==
    /\ Len(environments) = 2
    /\ \E i \in DOMAIN hist :
        /\ IsEvent(i, "advance")
        /\ hist[i].root = 1
        /\ hist[i].id >= 3

\* C5: the spreading wrapper visits the live generators in a fixed cyclic
\* order: between two consecutive yields of one root every other root that
\* has not completed by then yields exactly once; a generator that has
\* completed is not in the queue and is never advanced again.
C5_CyclicOrder ==
    spread.created =>
        /\ \A r \in Roots : \A i, j \in YieldsOf(r) :
            (i < j /\ ~\E k \in YieldsOf(r) : i < k /\ k < j) =>
                \A q \in Roots \ { r } :
                    ~FinishedBefore(q, j) =>
                        Cardinality({ k \in YieldsOf(q) : i < k /\ k < j }) = 1
        /\ \A i \in DOMAIN hist :
            IsEvent(i, "advance") => ~FinishedBefore(hist[i].root, i)
        /\ \A k \in DOMAIN spread.generators : Live(spread.generators[k].root)
        /\ spread.suspended # 0 => Live(spread.suspended)

\* one root has completed and the other has gone on to yield twice more
C5_Witness ==
    /\ spread.created
    /\ \E r, q \in Roots :
        /\ r # q
        /\ ~Live(r)
        /\ \E i \in DOMAIN hist :
            /\ IsEvent(i, "finish")
            /\ hist[i].root = r
            /\ Cardinality({ k \in YieldsOf(q) : k > i }) >= 2

\* C6 (as stated): when the generator is exhausted without a successful
\* validation, the NoWorkingEnvironment error carries the terminal metadata
\* of each root: one entry for every starting environment.
C6_AsStated ==
    outcome.kind = "NoWorkingEnvironment" =>
        /\ outcome.hasMetadata
        /\ Len(outcome.metadata) = Len(environments)
        /\ \A r \in Roots :
            \E k \in DOMAIN outcome.metadata : outcome.metadata[k].id = environments[r].id

\* C7 (as stated): a run in which more than BUDGET seconds have elapsed
\* since the recorded start ends with InferenceTimeout, carrying the elapsed
\* time and the number of validations; it ends neither with a result nor
\* with NoWorkingEnvironment.
C7_AsStated ==
    (pc = "done" /\ im.start >= 0 /\ now - im.start > BUDGET) =>
        /\ outcome.kind = "InferenceTimeout"
        /\ outcome.time = now - im.start
        /\ outcome.validations = im.numValidations

\* the parsers that succeeded, in the order they were run
ParsedBy(ok) == SelectSeq(PARSERS, LAMBDA x : \E k \in DOMAIN PARSERS : PARSERS[k] = x /\ ok[k])

\* C8: a failing parser sandbox is not fatal.  infer ends with
\* NoBaseEnvironments exactly when every parser sandbox failed, and then
\* nothing was resolved, no generator was created and nothing was validated;
\* when some parser succeeded the starting environments are exactly those of
\* the successful parsers, and resolution and the search work on them.
C8_ParserFailureNotFatal ==
    /\ outcome.kind = "NoBaseEnvironments"
        <=> (hist # << >> /\ hist[1].ev = "parse"
             /\ \A k \in DOMAIN PARSERS : ~hist[1].ok[k])
    /\ outcome.kind = "NoBaseEnvironments" =>
        /\ pc = "done"
        /\ environments = << >>
        /\ resolved = {}
        /\ im = NoInferenceMetadata
        /\ ~spread.created
        /\ lo = LevelOrderInit(<< >>)
        /\ gens = << >>
        /\ vals = << >>
        /\ Len(hist) = 1
    /\ (hist # << >> /\ \E k \in DOMAIN PARSERS : hist[1].ok[k]) =>
        /\ [ r \in Roots |-> environments[r].parser ] = ParsedBy(hist[1].ok)
        /\ resolved \subseteq Roots
        /\ pc # "resolve" => resolved = Roots
        /\ spread.created => DOMAIN gens = Roots
        /\ \A i \in DOMAIN hist : hist[i].ev = "yield" => hist[i].root \in Roots

\* the first parser failed, the second did not, and its environment got as
\* far as a validation
C8_Witness ==
    /\ hist # << >>
    /\ hist[1].ok = << FALSE, TRUE >>
    /\ Len(environments) = 1
    /\ environments[1].parser = PARSERS[2]
    /\ vals # << >>

\* C9: with noValidate, infer returns the first starting environment once
\* all environments are resolved; no generator is ever created and nothing
\* is ever validated; the result has numValidations = 0, no failed
\* validations and a null validation.
C9_NoValidate ==
    opts.noValidate =>
        /\ ~spread.created
        /\ lo = LevelOrderInit(<< >>)
        /\ gens = << >>
        /\ vals = << >>
        /\ \A i \in DOMAIN hist : hist[i].ev = "parse"
        /\ pc = "done" =>
            outcome.kind \in { "success", "NoBaseEnvironments", "InferenceError" }
        /\ outcome.kind = "success" =>
            /\ resolved = Roots
            /\ outcome.environment = environments[1]
            /\ im.numValidations = 0
            /\ im.failedValidations = << >>
            /\ im.validation = 0

\* noValidate, two starting environments, the first returned with its
\* resolved dependencies
C9_Witness ==
    /\ opts.noValidate
    /\ outcome.kind = "success"
    /\ Len(environments) = 2
    /\ outcome.environment.dependencies # << >>
    /\ outcome.environment.id = 0

\* no two entries with the same (normalize(name), system)
NoDuplicates(dependencies) ==
    \A i, j \in DOMAIN dependencies :
        i # j => NodeId(dependencies[i]) # NodeId(dependencies[j])

\* C10 (as stated): invariant I1.  The dependency list of every resolved
\* environment -- the direct items when only = none, the install order of
\* the transitive search otherwise -- holds no two entries with the same
\* (normalize(name), system), whatever the imported resources and however
\* the concurrent per-resource lookups interleave.
C10_AsStated ==
    rs.pc = "resolved" => NoDuplicates(rs.dependencies)

-----------------------------------------------------------------------------
(* The prerequisite graph as the transitive search sees it: a package is    *)
(* known by (normalize(name), system), an edge is a row of the dependency   *)
(* query under the selected only mode.                                       *)

PackageNames == DOMAIN NoEdges

PackageIds == { NodeId([ name |-> n, system |-> pip ]) : n \in PackageNames }

\* the packages the query returns for a package
Prerequisites(world, only, id) ==
    { NodeId(r) : r \in UNION { { DependencyRecords(world, only, n)[k] :
                                    k \in DOMAIN DependencyRecords(world, only, n) } :
                                n \in { m \in PackageNames :
                                          NodeId([ name |-> m, system |-> pip ]) = id } } }

\* the packages reached from a set of packages in at most k further steps
RECURSIVE Closure(_, _, _, _)
Closure(world, only, ids, k) ==
    IF k = 0 THEN ids
    ELSE Closure(world, only,
                 ids \cup UNION { Prerequisites(world, only, id) : id \in ids },
                 k - 1)

\* the packages reachable from a package through one edge or more
Reachable(world, only, id) ==
    Closure(world, only, Prerequisites(world, only, id), Cardinality(PackageIds))

\* the graph discovered from the direct dependencies has no cycle
AcyclicFrom(world, only, items) ==
    LET roots == { NodeId(items[i]) : i \in DOMAIN items }
        discovered == Closure(world, only, roots, Cardinality(PackageIds))
    IN  \A id \in discovered : id \notin Reachable(world, only, id)

\* C11: whenever the prerequisite graph discovered under the selected only
\* mode is acyclic, the install order of a resolved environment is a
\* reverse topological order: a package of the install order comes after
\* every package of the install order that is reachable from it.
C11_ReverseTopologicalOrder ==
    ( /\ rs.pc = "resolved"
      /\ rs.only # "none"
      /\ AcyclicFrom(rs.world, rs.only, rs.items) ) =>
        \A i, j \in DOMAIN rs.dependencies :
            NodeId(rs.dependencies[j])
                \in Reachable(rs.world, rs.only, NodeId(rs.dependencies[i]))
            => j < i

\* an acyclic diamond resolved: three packages in the install order, the
\* last of which reaches the first directly and through the second
C11_Witness ==
    /\ rs.pc = "resolved"
    /\ rs.only # "none"
    /\ AcyclicFrom(rs.world, rs.only, rs.items)
    /\ Len(rs.dependencies) = 3
    /\ NodeId(rs.dependencies[1])
          \in Prerequisites(rs.world, rs.only, NodeId(rs.dependencies[3]))
    /\ NodeId(rs.dependencies[1])
          \in Prerequisites(rs.world, rs.only, NodeId(rs.dependencies[2]))
    /\ NodeId(rs.dependencies[2])
          \in Prerequisites(rs.world, rs.only, NodeId(rs.dependencies[3]))

\* C12 (as stated): invariant I4.  After direct resolution every imported
\* resource has a {resource, package} pair in resourcePackageMapping, or a
\* failure to find a package for it has been logged.
C12_AsStated ==
    rs.pc = "resolved" =>
        \A i \in DOMAIN rs.resources :
            \/ \E k \in DOMAIN rs.resourcePackageMapping :
                    rs.resourcePackageMapping[k].resource = rs.resources[i]
            \/ \E l \in rs.log : l.name = rs.resources[i]

\* m2 undoes m1: the same package, from and to swapped
Inverse(m1, m2) ==
    /\ m1.package = m2.package
    /\ m1.from = m2.to
    /\ m1.to = m2.from

\* C13 (as stated): the feedback-directed search never yields an
\* environment whose mutation stack holds a mutation immediately followed
\* by its inverse.
C13_AsStated ==
    opts.search = "feedback-directed" =>
        \A i \in DOMAIN hist :
            hist[i].ev = "yield" =>
                \A k \in 1 .. (Len(hist[i].env.mutations) - 1) :
                    ~Inverse(hist[i].env.mutations[k], hist[i].env.mutations[k + 1])

\* the result holds exactly the strings of the list kept by Keep, each once
PermutationOf(result, versions, Keep(_)) ==
    /\ { result[i] : i \in DOMAIN result }
          = { versions[i] : i \in { k \in DOMAIN versions : Keep(versions[k]) } }
    /\ \A i, j \in DOMAIN result : i # j => result[i] # result[j]

\* C15 (as stated): sortVersions(vs, ascending, cutoff = c) returns a
\* permutation of exactly the input versions v with v >= c in non-decreasing
\* order when ascending, and of the input versions v <= c in non-increasing
\* order otherwise, under the version order of the adapter.
C15_AsStated ==
    ad.pc = "sorted" =>
        /\ PermutationOf(ad.result, ad.versions,
                         LAMBDA v : IF ad.ascending
                                    THEN SemverCompare(coerceSemver(v), coerceSemver(ad.cutoff)) >= 0
                                    ELSE SemverCompare(coerceSemver(v), coerceSemver(ad.cutoff)) <= 0)
        /\ \A i, j \in DOMAIN ad.result :
              i < j => IF ad.ascending
                       THEN SemverCompare(coerceSemver(ad.result[i]), coerceSemver(ad.result[j])) <= 0
                       ELSE SemverCompare(coerceSemver(ad.result[i]), coerceSemver(ad.result[j])) >= 0

\* C16 (as stated): normalizeName is idempotent for every adapter and
\* every package name.
C16_AsStated ==
    ad.pc = "normalized" => ad.twice = ad.once


-----------------------------------------------------------------------------
(* The version cache                                                         *)

\* calls i and i + 1 are availableVersions calls for the same normalized
\* name, and both fall within the TTL of the answer the first one gave
ConsecutiveWithinTTL(i) ==
    /\ i \in 1 .. (Len(ad.calls) - 1)
    /\ ad.calls[i].op = "availableVersions"
    /\ ad.calls[i + 1].op = "availableVersions"
    /\ ad.calls[i].key = ad.calls[i + 1].key
    /\ ad.calls[i].now - ad.calls[i].validated <= TTL(ad.system)
    /\ ad.calls[i + 1].now - ad.calls[i].validated <= TTL(ad.system)

\* both calls return the same list and at most one of them queries upstream
Coherent(i) ==
    /\ ~ad.calls[i].threw
    /\ ~ad.calls[i + 1].threw
    /\ ad.calls[i].versions = ad.calls[i + 1].versions
    /\ ~(ad.calls[i].queried /\ ad.calls[i + 1].queried)

C17_AsStated ==
    ad.pc = "adapter" =>
        \A i \in 1 .. Len(ad.calls) :
            (ad.calls[i].op = "exactMatch" /\ ~ad.calls[i].threw /\ ad.calls[i].match # << >>)
                => /\ ad.calls[i].available # {}
                   /\ ad.calls[i].version # << >>
                        => ad.calls[i].version[1] \in ad.calls[i].available

-----------------------------------------------------------------------------
(* The per-root budget                                                       *)

-----------------------------------------------------------------------------
(* failedValidations                                                         *)

\* C19 (as stated): at every point of infer, and in the result or error it
\* finally produces, failedValidations contains no two entries that are
\* equal by value.
C19_AsStated ==
    \A i, j \in DOMAIN im.failedValidations :
        i # j => vals[im.failedValidations[i]] # vals[im.failedValidations[j]]

-----------------------------------------------------------------------------
(* Early termination of the feedback-directed search                        *)

\* the terminal metadata collected for root r
TerminalMetadata(r) ==
    { k \in DOMAIN spread.metadata : spread.metadata[k].id = environments[r].id }

\* root r, resumed at position i of the history, completed in that very
\* resumption with the given code and has not yielded since
TerminatedAt(r, i, code) ==
    /\ IsEvent(i + 1, "finish")
    /\ hist[i + 1].root = r
    /\ \A k \in YieldsOf(r) : k < i
    /\ gens[r].pc = "done"
    /\ TerminalMetadata(r) # {}
    /\ \A k \in TerminalMetadata(r) : spread.metadata[k].code = code

\* the validation has no execution record or an UnknownException status
NoExecutionInformation(v) == ~v.hasExecution \/ v.exec_status = UNKNOWN_EXCEPTION

\* C20: the feedback-directed search yields no further environment for a
\* root once a validation it is resumed with (that of the unmutated root, or
\* a later one, which differs from the checkpoint) reports Timeout, or has no
\* execution record or an UnknownException execution status, or once the
\* validation that becomes its checkpoint is not repairable: it terminates
\* in that resumption with terminal code Timeout, UnknownException or
\* NotRepairable respectively.
C20_EarlyTermination ==
    (spread.created /\ spread.search = "feedback-directed") =>
        \A i \in DOMAIN hist :
            (IsEvent(i, "advance") /\ hist[i].id > 0) =>
                /\ vals[hist[i].id].status_code = TIMEOUT
                    => TerminatedAt(hist[i].root, i, TIMEOUT)
                /\ (vals[hist[i].id].status_code # TIMEOUT
                        /\ NoExecutionInformation(vals[hist[i].id]))
                    => TerminatedAt(hist[i].root, i, UNKNOWN_EXCEPTION)
                /\ (vals[hist[i].id].status_code # TIMEOUT
                        /\ ~NoExecutionInformation(vals[hist[i].id])
                        /\ gens[hist[i].root].checkpoint = hist[i].id
                        /\ ~isRepairableVersionError(environments[hist[i].root],
                                                     vals[hist[i].id]))
                    => TerminatedAt(hist[i].root, i, NOT_REPAIRABLE)

\* a root that had yielded a mutant was resumed with a validation that timed
\* out, and another root ended on a checkpoint that is not repairable
C20_Witness ==
    /\ spread.created
    /\ spread.search = "feedback-directed"
    /\ \E i, j \in DOMAIN hist :
        /\ IsEvent(i, "advance")
        /\ hist[i].id > 0
        /\ vals[hist[i].id].status_code = TIMEOUT
        /\ Cardinality({ k \in YieldsOf(hist[i].root) : k < i }) >= 2
        /\ TerminatedAt(hist[i].root, i, TIMEOUT)
        /\ IsEvent(j, "advance")
        /\ hist[j].id > 0
        /\ hist[j].root # hist[i].root
        /\ TerminatedAt(hist[j].root, j, NOT_REPAIRABLE)

-----------------------------------------------------------------------------
(* The feedback-directed search between two yields                           *)

\* the feedback-directed generators
FDDRoots == { r \in DOMAIN gens : gens[r].kind = "fdd" }

\* C21: no progress leaves the checkpoint alone.  When the validation a root
\* is resumed with equals the checkpoint, or firstExecutionException returns
\* that validation or the tie sentinel, the checkpoint, the blamed index, the
\* per-dependency feedback metadata and the secondary IDDFS handle are what
\* they were at the yield, and fixedValidations is what it was before the
\* optimistic append.
C21_NoProgressKeepsCheckpoint ==
    \A r \in FDDRoots :
        gens[r].kept # << >> => gens[r].kept[1].after = gens[r].kept[1].before

\* a root was resumed without progress while it held a superseded checkpoint
\* and the feedback metadata of the dependency it blames
C21_Witness ==
    \E r \in FDDRoots :
        /\ gens[r].kept # << >>
        /\ gens[r].kept[1].before.fixedValidations # << >>
        /\ DOMAIN gens[r].kept[1].before.feedbackMetadata # {}

\* the validations root r was resumed with that became its checkpoint (only
\* a checkpoint carries the property validations), in order, among the first
\* k entries of the history
RECURSIVE CheckpointsUpTo(_, _)
CheckpointsUpTo(r, k) ==
    IF k = 0 THEN << >>
    ELSE IF /\ IsEvent(k, "advance")
            /\ hist[k].root = r
            /\ hist[k].id > 0
            /\ vals[hist[k].id].validations >= 0
         THEN Append(CheckpointsUpTo(r, k - 1), hist[k].id)
         ELSE CheckpointsUpTo(r, k - 1)

CheckpointsOf(r) == CheckpointsUpTo(r, Len(hist))

\* C22: whenever the feedback-directed search is suspended at the yield of a
\* mutated environment, fixedValidations is the superseded checkpoints, in
\* order, followed by the current checkpoint; whenever it has terminated,
\* fixedValidations is exactly the superseded checkpoints, and the terminal
\* checkpoint is the one in its terminal metadata, not in fixedValidations.
C22_FixedValidations ==
    \A r \in FDDRoots :
        /\ gens[r].pc = "mutant" =>
            /\ environments[r].fixedValidations = CheckpointsOf(r)
            /\ Last(CheckpointsOf(r)) = gens[r].checkpoint
        /\ (gens[r].pc = "done" /\ CheckpointsOf(r) # << >>) =>
            /\ environments[r].fixedValidations = Front(CheckpointsOf(r))
            /\ Last(CheckpointsOf(r)) = gens[r].checkpoint
            /\ \A k \in TerminalMetadata(r) :
                spread.metadata[k].checkpoint = gens[r].checkpoint

\* a root is suspended at a mutant with one superseded checkpoint before the
\* current one, and another root has terminated with a superseded checkpoint
C22_Witness ==
    \E r, q \in FDDRoots :
        /\ gens[r].pc = "mutant"
        /\ Len(environments[r].fixedValidations) = 2
        /\ gens[q].pc = "done"
        /\ environments[q].fixedValidations # << >>
        /\ TerminalMetadata(q) # {}

\* the slot root r blames, when the slot exists
Blames(r) ==
    /\ gens[r].index # NoIndex
    /\ gens[r].index[1] >= 0
    /\ gens[r].index[1] < Len(environments[r].dependencies)

BlamedHash(r) ==
    dependencyHash(environments[r].dependencies[gens[r].index[1] + 1])

\* the blamed dependency of root r has been visited since the checkpoint was
\* taken (a checkpoint that is not repairable ends the search before the
\* metadata of the previous one is dropped), no mutant has been yielded for the checkpoint, and the plan that
\* was built for it is empty: the plan was empty when it was built
EmptyPlanBuilt(r) ==
    /\ Blames(r)
    /\ isRepairableVersionError(environments[r], vals[gens[r].checkpoint])
    /\ BlamedHash(r) \in DOMAIN gens[r].feedbackMetadata
    /\ gens[r].feedbackMetadata[BlamedHash(r)].versionMatrixMutations = << >>
    /\ vals[gens[r].checkpoint].validations = 0

\* C23: when the blamed dependency has no version-matrix queue, because it
\* has no upgrade data or because its plan is empty, the search has created
\* the dependency-scoped IDDFS over that slot and advanced it.
C23_AsStated ==
    \A r \in FDDRoots :
        EmptyPlanBuilt(r) =>
            /\ gens[r].iddfs.kind = "dep"
            /\ \A k \in TerminalMetadata(r) :
                spread.metadata[k].code # EXHAUSTED_MATRIX_VERSIONS

\* plan is a chain of single-version changes that starts at version c
Chain(c, plan) ==
    \A k \in DOMAIN plan :
        /\ plan[k].mutation.from = (IF k = 1 THEN c ELSE plan[k - 1].mutation.to)
        /\ plan[k].mutant.version = plan[k].mutation.to

\* C24: the matrix mutation plan built for a dependency at version c is a
\* chain: the first mutation has from = c, every later one has from equal to
\* the previous mutation's to, and every mutant carries the version named by
\* its mutation's to.  It is stated of the plan of every dependency of every
\* environment, and of the rest of the plan a search holds for the dependency
\* it blames, which starts at the version the dependency has been moved to.
C24_PlanIsChain ==
    /\ \A r \in DOMAIN environments :
        \A i \in DOMAIN environments[r].dependencies :
            Chain(environments[r].dependencies[i].version,
                  versionMatrixMutations(environments[r].dependencies[i]).plan)
    /\ \A r \in FDDRoots :
        (Blames(r) /\ BlamedHash(r) \in DOMAIN gens[r].feedbackMetadata) =>
            Chain(environments[r].dependencies[gens[r].index[1] + 1].version,
                  gens[r].feedbackMetadata[BlamedHash(r)].versionMatrixMutations)

\* a search has applied the first mutation of a plan of three and holds the
\* other two
C24_Witness ==
    \E r \in FDDRoots :
        /\ Blames(r)
        /\ BlamedHash(r) \in DOMAIN gens[r].feedbackMetadata
        /\ Len(gens[r].feedbackMetadata[BlamedHash(r)].versionMatrixMutations) = 2
        /\ environments[r].mutations # << >>
        /\ gens[r].pc = "mutant"

\* C25: the matrix mutation plan skips versions already encountered: no
\* version is the target (to) of more than one mutation of the plan built for
\* a dependency.
C25_AsStated ==
    \A r \in DOMAIN environments :
        \A i \in DOMAIN environments[r].dependencies :
            LET plan == versionMatrixMutations(environments[r].dependencies[i]).plan
            IN  \A j, k \in DOMAIN plan :
                    plan[j].mutation.to = plan[k].mutation.to => j = k

\* the frames of the code under inference: those not under the prefix
OwnFrames(v) == SelectSeq(v.stack, LAMBDA frame : ~IsSiteFrame(frame))

\* the line number of the deepest frame of the code under inference
DeepestOwnLine(v) == Last(OwnFrames(v)).line

\* C26: firstExecutionException(v1, v2) compares the line numbers of the
\* deepest frames of the code under inference: it returns the validation with
\* the smaller one and the sentinel when they are equal.
C26_AsStated ==
    (ad.pc = "compared" /\ OwnFrames(ad.v1) # << >> /\ OwnFrames(ad.v2) # << >>) =>
        ad.first = (IF DeepestOwnLine(ad.v1) < DeepestOwnLine(ad.v2) THEN "v1"
                    ELSE IF DeepestOwnLine(ad.v2) < DeepestOwnLine(ad.v1) THEN "v2"
                    ELSE "null")

\* C27: firstExecutionException returns the sentinel, and does not fail, when
\* neither validation carries a stack frame with a line number.
C27_AsStated ==
    (ad.pc = "compared" /\ ~HasLine(ad.v1) /\ ~HasLine(ad.v2)) => ad.first = "null"

HasSiteFrame(v) == \E i \in DOMAIN v.stack : IsSiteFrame(v.stack[i])

\* the resource read from the failing line has an entry in the mapping
Mapped(env, v) == \E i \in DOMAIN env.mapping : env.mapping[i].resource = v.resource

\* C28: isRepairableVersionError(env, v) is false whenever the exception kind
\* is FileNotFoundError, even with a frame under the third-party prefix;
\* otherwise it is true exactly when some frame lies under the prefix, or the
\* kind is import-like and the resource has an entry in the mapping, or the
\* kind is not import-like and is TypeError or AttributeError.
C28_Repairable ==
    ad.pc = "classified" =>
        LET v == ad.validation
            env == ad.environment
        IN  /\ v.exception_name = "FileNotFoundError" => ~ad.repairable
            /\ v.exception_name # "FileNotFoundError" =>
                (ad.repairable <=>
                    \/ HasSiteFrame(v)
                    \/ v.exception_name \in IMPORT_ERRORS /\ Mapped(env, v)
                    \/ /\ v.exception_name \notin IMPORT_ERRORS
                       /\ v.exception_name \in { "TypeError", "AttributeError" })

\* a FileNotFoundError raised inside a third-party package is classified
C28_Witness ==
    /\ ad.pc = "classified"
    /\ ad.validation.exception_name = "FileNotFoundError"
    /\ HasSiteFrame(ad.validation)
    /\ ~ad.repairable

\* the index of the dependency of the environment's system that the frame
\* names, or -1
FrameDependency(env, frame) ==
    FindIndex(env.dependencies, LAMBDA d : d.system = pip /\ d.name = frame.pkg)

\* the third-party frames of the stack that name a dependency of the
\* environment's system, as positions among the third-party frames
ManagedFrames(env, v) ==
    { i \in DOMAIN SelectSeq(v.stack, IsSiteFrame) :
        FrameDependency(env, SelectSeq(v.stack, IsSiteFrame)[i]) >= 0 }

\* the index the last of these frames leads to
LastManagedDependency(env, v) ==
    FrameDependency(env, SelectSeq(v.stack, IsSiteFrame)[
        CHOOSE i \in ManagedFrames(env, v) : \A j \in ManagedFrames(env, v) : j <= i])

\* the entries of the mapping for the resource of the failing line
PackagesFor(env, v) == SelectSeq(env.mapping, LAMBDA m : m.resource = v.resource)

\* no frame is third-party, the exception is import-like and the resource
\* maps to exactly one package
SingleMapped(env, v) ==
    /\ ~HasSiteFrame(v)
    /\ v.exception_name \in IMPORT_ERRORS
    /\ Len(PackagesFor(env, v)) = 1

FailedPairs(env) ==
    { k \in DOMAIN MutatorPairs(env) :
        ~Apply(MutatorPairs(env)[k].mutator,
               env.dependencies[MutatorPairs(env)[k].index + 1]).ok }

\* C30: in the level-order traversal a pair whose mutator.apply produces no
\* result does not stop the traversal: the traversal does not end, with an
\* error, at a frontier entry that has such a pair.
C30_AsStated ==
    ( /\ opts.search = "level-order"
      /\ lo.pos \in DOMAIN lo.environments
      /\ lo.level < Levels - 1
      /\ FailedPairs(lo.environments[lo.pos]) # {} )
    => ~(lo.pc = "done" /\ outcome.kind = "TypeError")

\* the slots in which two dependency lists of the same length differ
DifferingSlots(a, b) == { i \in DOMAIN a : a[i] # b[i] }

\* child is parent with one slot replaced and one mutation appended
IsChildOf(child, parent) ==
    /\ Len(child.dependencies) = Len(parent.dependencies)
    /\ Cardinality(DifferingSlots(child.dependencies, parent.dependencies)) = 1
    /\ Len(child.mutations) = Len(parent.mutations) + 1
    /\ SubSeq(child.mutations, 1, Len(parent.mutations)) = parent.mutations

\* the next frontier as the traversal holds it after a step: nextLevel, or
\* the frontier itself when the step went on to the next level
NextFrontier(before, after) ==
    IF after.level = before.level THEN after.nextLevel ELSE after.environments

\* a step of the traversal that expanded the frontier entry it had yielded
ExpandedEntry ==
    /\ opts.search = "level-order"
    /\ lo.pc = "yielded"
    /\ lo.level < Levels - 1
    /\ lo' # lo
    /\ outcome'.kind # "TypeError"

IDDFSRoots == { r \in DOMAIN gens : gens[r].kind = "iddfs" }

\* the mutations the search has pushed on a yielded environment (a root
\* starts with none)
DepthOfYield(i) == Len(hist[i].env.mutations)

\* C32: after the root, IDDFS yields in passes of depth 1, 2, ...: an
\* environment yielded during pass d carries d mutations, the depths of
\* successive yields never decrease, every pass before the current one
\* yielded something, and a search that ends with budget left ends at the end
\* of a pass in which nothing was yielded.
C32_DepthPasses ==
    \A r \in IDDFSRoots :
        /\ \A i \in YieldsOf(r) :
            \A j \in YieldsOf(r) : i < j => DepthOfYield(i) <= DepthOfYield(j)
        /\ (gens[r].pc = "leaf" /\ hist # << >> /\ Last(hist).ev = "yield"
                /\ Last(hist).root = r)
            => DepthOfYield(Len(hist)) = gens[r].depth
        /\ \A i \in YieldsOf(r) : DepthOfYield(i) <= gens[r].depth
        /\ \A d \in 1 .. (gens[r].depth - 1) :
            \E i \in YieldsOf(r) : DepthOfYield(i) = d
        /\ (gens[r].pc = "done" /\ gens[r].totalCount < gens[r].n)
            => /\ gens[r].depthCount = 0
               /\ gens[r].currentDepth = 0
               /\ ~\E i \in YieldsOf(r) : DepthOfYield(i) = gens[r].depth

\* a search that yielded in passes 1 and 2 and ended in pass 3, which yielded
\* nothing
C32_Witness ==
    \E r \in IDDFSRoots :
        /\ gens[r].pc = "done"
        /\ gens[r].depth = 3
        /\ gens[r].totalCount < gens[r].n
        /\ \E i \in YieldsOf(r) : DepthOfYield(i) = 2

\* C33: the id-dfs search yields an environment only the first time it is
\* generated: over one root's run no two yielded environments have the same
\* dependency list.
C33_YieldedOnce ==
    \A r \in IDDFSRoots :
        \A i \in YieldsOf(r) :
            \A j \in YieldsOf(r) :
                hist[i].env.dependencies = hist[j].env.dependencies => i = j

\* a search over two dependencies has yielded in its second pass, where the
\* environments of the first pass are generated again
C33_Witness ==
    \E r \in IDDFSRoots :
        /\ Len(environments[r].rootDependencies) = 2
        /\ Cardinality(YieldsOf(r)) >= 5
        /\ \E i \in YieldsOf(r) : DepthOfYield(i) = 2

\* the environments root r yielded among the first k entries of the history
RECURSIVE YieldedUpTo(_, _)
YieldedUpTo(r, k) ==
    IF k = 0 THEN << >>
    ELSE IF IsEvent(k, "yield") /\ hist[k].root = r
         THEN Append(YieldedUpTo(r, k - 1), hist[k].env)
         ELSE YieldedUpTo(r, k - 1)

\* the first k environments IDDFS yields when it is resumed with nothing
RECURSIVE ReferenceYields(_, _, _)
ReferenceYields(g, env, k) ==
    IF k = 0 THEN << >>
    ELSE LET res == IDDFSNext(g, env)
         IN  IF res.done THEN << >>
             ELSE << res.env >> \o ReferenceYields(res.g, res.env, k - 1)

\* the environment of root r as it was before the search started
RootEnvironment(r) ==
    [ environments[r] EXCEPT !.dependencies = environments[r].rootDependencies,
                             !.mutations = << >> ]

RootHeld(r) ==
    [ dependencies |-> environments[r].rootDependencies, mutations |-> << >> ]

\* C35: undo is exact in IDDFS: at the end of every complete depth pass, and
\* when IDDFS ends because a pass yielded nothing, the dependency list and the
\* mutation stack of the environment are those of the root before the search
\* started.
C35_UndoExact ==
    \A r \in IDDFSRoots :
        /\ \A k \in DOMAIN gens[r].passEnds : gens[r].passEnds[k] = RootHeld(r)
        /\ (gens[r].pc = "done" /\ gens[r].totalCount < gens[r].n)
            => /\ environments[r].dependencies = environments[r].rootDependencies
               /\ environments[r].mutations = << >>

\* three passes have ended, the second after backtracking from depth two
C35_Witness ==
    \E r \in IDDFSRoots :
        /\ Len(gens[r].passEnds) = 3
        /\ gens[r].pc = "done"
        /\ environments[r].rootDependencies # << >>
        /\ \E i \in YieldsOf(r) : DepthOfYield(i) = 2

\* pair a is not after pair b in the order by dependency index, then by
\* mutator index
PairLeq(a, b) ==
    \/ a.index < b.index
    \/ a.index = b.index /\ a.mutatorIndex <= b.mutatorIndex

\* C40: in every environment yielded by IDDFS the pairs (dependency index,
\* mutator index) of the mutations on the stack are lexicographically
\* non-decreasing from bottom to top.
C40_PairsOrdered ==
    \A r \in IDDFSRoots :
        \A i \in YieldsOf(r) :
            \A k \in 1 .. (Len(hist[i].env.mutations) - 1) :
                PairLeq(hist[i].env.mutations[k].iddfs,
                        hist[i].env.mutations[k + 1].iddfs)

\* yields of depth 2 with the same pair twice, with two mutators on one
\* dependency, and with two dependencies
C40_Witness ==
    \E r \in IDDFSRoots :
        \E i, j \in YieldsOf(r) :
            /\ DepthOfYield(i) = 2
            /\ hist[i].env.mutations[1].iddfs.index # hist[i].env.mutations[2].iddfs.index
            /\ DepthOfYield(j) = 2
            /\ hist[j].env.mutations[1].iddfs.index = hist[j].env.mutations[2].iddfs.index
            /\ hist[j].env.mutations[1].iddfs.mutatorIndex
                 < hist[j].env.mutations[2].iddfs.mutatorIndex

\* every callback of the direct resolution is done
LookupsDone ==
    /\ rs.pc = "direct"
    /\ \A i \in DOMAIN rs.procs : rs.procs[i].pc = "done"

\* no id occurs twice in a list of node ids
EachOnce(ids) == \A i, j \in DOMAIN ids : i # j => ids[i] # ids[j]

\* the discovered graph has a cycle
CyclicFrom(world, only, items) == ~AcyclicFrom(world, only, items)

\* C36: the transitive search ends on every prerequisite graph, cyclic ones
\* included, and explores a (normalized name, system) node at most once:
\* once the direct lookups are done the search over the items they left
\* ends after at most as many queries as there are nodes, and in its result
\* no node was queried twice and no node was pushed to the install order
\* twice.
C36_ExploredOnce ==
    /\ LookupsDone =>
          Len(SearchTrace(rs.only, rs.items, rs.world).queried) <= Cardinality(PackageIds)
    /\ rs.pc = "resolved" =>
          /\ EachOnce(rs.search.queried)
          /\ EachOnce(rs.search.pushed)
          /\ Len(rs.search.pushed) = IF rs.only = "none" THEN 0 ELSE Len(rs.dependencies)

\* a search over a cyclic graph has ended: two packages that reach each
\* other were both queried and both pushed
C36_Witness ==
    /\ rs.pc = "resolved"
    /\ rs.only # "none"
    /\ CyclicFrom(rs.world, rs.only, rs.items)
    /\ \E i, j \in DOMAIN rs.search.pushed :
          /\ i # j
          /\ rs.search.pushed[i] \in Reachable(rs.world, rs.only, rs.search.pushed[j])
          /\ rs.search.pushed[j] \in Reachable(rs.world, rs.only, rs.search.pushed[i])
          /\ \E k \in DOMAIN rs.search.queried : rs.search.queried[k] = rs.search.pushed[i]
          /\ \E k \in DOMAIN rs.search.queried : rs.search.queried[k] = rs.search.pushed[j]

\* the entries of the lookup list whose name is the name of no imported
\* resource
NonTrivialItems(lookup) ==
    { k \in DOMAIN lookup.items :
        \A i \in DOMAIN lookup.resources : lookup.items[k].name # lookup.resources[i] }

\* C37 (as stated): at the end of the direct resolution, whatever the
\* interleaving of the per-resource lookups, nameResolutions is the number
\* of entries of the lookup list whose name is not the name of an imported
\* resource, and it is not negative.
C37_AsStated ==
    rs.pc = "resolved" =>
        /\ rs.nameResolutions = Cardinality(NonTrivialItems(rs))
        /\ rs.nameResolutions >= 0

\* call i left an entry under its key, and call i + 1 reads that entry more
\* than the TTL after its updated time
StaleAtNextAccess(i) ==
    /\ i \in 1 .. (Len(ad.calls) - 1)
    /\ ad.calls[i].key = ad.calls[i + 1].key
    /\ ~ad.calls[i].threw
    /\ ad.calls[i].stored
    /\ ad.calls[i + 1].now - ad.calls[i].validated > PIP_TTL

\* call i + 1 asked upstream and, unless the request failed, left the entry
\* with the time of the call as its updated time
Refreshed(i) ==
    /\ ad.calls[i + 1].queried
    /\ ~ad.calls[i + 1].threw =>
          /\ ad.calls[i + 1].stored
          /\ ad.calls[i + 1].validated = ad.calls[i + 1].now

\* C38 (as stated): in the language-repository adapter a cache entry whose
\* updated time is more than 3600 seconds old is refreshed on its next
\* access, whatever it holds: the access asks upstream and rewrites the
\* updated time of the entry.
C38_AsStated ==
    (ad.pc = "adapter" /\ ad.system = "pip") =>
        \A i \in 1 .. Len(ad.calls) : StaleAtNextAccess(i) => Refreshed(i)

\* the line number firstExecutionException reads from a validation
ComparedLine(id) == vals[id].stack[1].line

\* the line numbers of a list of validations grow strictly
LinesIncrease(ids) ==
    \A i, j \in DOMAIN ids : i < j => ComparedLine(ids[i]) < ComparedLine(ids[j])

\* C39: within the feedback-directed search of one root the checkpoint only
\* moves forward: the validations that became its checkpoint, in order, have
\* strictly increasing compared line numbers, so none of them became the
\* checkpoint twice; at the yield of a mutated environment these are the
\* entries of fixedValidations, the current checkpoint last.
C39_CheckpointForward ==
    \A r \in FDDRoots :
        /\ LinesIncrease(CheckpointsOf(r))
        /\ \A i, j \in DOMAIN CheckpointsOf(r) :
              i # j => CheckpointsOf(r)[i] # CheckpointsOf(r)[j]
        /\ gens[r].pc = "mutant" =>
              /\ LinesIncrease(environments[r].fixedValidations)
              /\ Last(environments[r].fixedValidations) = gens[r].checkpoint

\* a root whose checkpoint was replaced twice
C39_Witness ==
    \E r \in FDDRoots :
        /\ Len(CheckpointsOf(r)) = 3
        /\ ComparedLine(CheckpointsOf(r)[1]) < ComparedLine(CheckpointsOf(r)[3])

====
